---- MODULE Spec2Model ----
(***************************************************************************)
(* Model of the intersection kernel of compose-graphics (lib/edges.js,     *)
(* lib/geom.js, lib/utils.js and the equation solvers edges.js imports).   *)
(*                                                                         *)
(* Numbers.  Coordinates are integers (the inputs are points with integer  *)
(* coordinates that are multiples of Grid, so every midpoint taken by the  *)
(* subdivision is again an integer and the double arithmetic of the code   *)
(* is exact on them).  Parameters t, errors and epsilons are exact         *)
(* fractions <<n, d>> in lowest terms with d > 0.                          *)
(*                                                                         *)
(* Edges.  An edge is [deg |-> 1, pts |-> <<start, end>>] (Line) or        *)
(* [deg |-> 2, pts |-> <<start, control, end>>] (QuadraticBezier).  The    *)
(* quadratic inputs have their control point at the middle of the chord,   *)
(* which makes the leading coefficient start - 2*control + end zero on     *)
(* both axes; this is kept by splitAt(0.5), so the quadratic code always   *)
(* takes its c2 = 0 paths and no square root is taken.  CubicBezier is     *)
(* [deg |-> 3, pts |-> <<start, control1, control2, end>>]; the functions  *)
(* of an edge that are called alone (pointAt, splitAt, extremePoints,      *)
(* paramsForPoint) are modelled for the three classes.  selfIntersections  *)
(* is also given parabolas, whose extreme points and split points are      *)
(* integer points.  The EE case of the engine's switch is also applied on  *)
(* its own, to tasks on long, slightly bent quadratics: their deviations   *)
(* are below the bound of the chord test without being 0.                  *)
(*                                                                         *)
(* Doubles.  Where rounding matters (the round trip of paramsForPoint and  *)
(* pointAt, the consistency of splitAt and pointAt, the (t, ratio)         *)
(* records of selfIntersections) the numbers are IEEE 754 doubles          *)
(* [s, m, e], computed bit for bit: see the section on floating point      *)
(* below.                                                                  *)
(***************************************************************************)
EXTENDS Integers, Sequences, FiniteSets, TLC

VARIABLES
    mode,          \* which entry point is being run
    line1, line2,  \* arguments of intersectionsLL
    llret,         \* its return value
    mres, meps,    \* arguments of mergeNeighboringPoints
    mremoved,      \* its `removed` array when the pass is over
    mout,          \* its return value
    edge1, edge2, depth, epsilon, maxIteration,  \* arguments of intersections
    queue, res, exactRes, itr,                   \* locals of the engine
    ret,           \* "idle", "running", "lines", "list" or "Indeterminate"
    last,          \* what the last processed task did (observation only)
    out,           \* return value of intersections
    symA, symB,    \* intersections(e1, e2) and intersections(e2, e1)
    self,          \* locals of selfIntersections: splits, i, j, res, and the
                   \* PP seeds of its runs so far (observation only)
    fnArgs, fnRet  \* arguments and return value of a function called alone

vars == <<mode, line1, line2, llret, mres, meps, mremoved, mout,
          edge1, edge2, depth, epsilon, maxIteration,
          queue, res, exactRes, itr, ret, last, out, symA, symB,
          self, fnArgs, fnRet>>

-----------------------------------------------------------------------------
(* Bounds *)

\* largest search depth given to intersections
MaxDepth == 2
\* largest non-negative iteration budget given to intersections
MaxBudget == 9
\* largest coordinate (in grid steps) of the points given to intersectionsLL
MaxCoord == 3
\* longest list given to mergeNeighboringPoints
MaxMerge == 3
\* largest corner coordinate, width and height of the rectangles given to
\* Rectangle#overlaps
MaxRect == 2
\* largest size of a coefficient given to the solvers
MaxCoef == 2
\* largest coordinate of the edges and points given to paramsForPoint
MaxParam == 1
\* largest coordinate of the lines of the round trip on doubles, and the
\* number of steps from t = 0 to t = 1
MaxRound == 2
RoundSteps == 10
\* largest denominator of the parameters of the extreme points of the
\* edges whose (t, ratio) records are computed on doubles
MaxDen == 6
\* the edges given to splitAt are scaled by 10^0, 10^8, .., 10^(8 MaxSplit),
\* and t and u go from 0 to MaxStep / 5 in steps of 1 / 5
MaxSplit == 1
MaxStep == 3

\* spacing of the input points of the engine: midpoints stay integral down
\* to the control points of the edges of depth MaxDepth
Grid == 2 ^ (MaxDepth + 1)

\* A return value is a record: not returned yet, the `undefined` that stands
\* for infinitely many solutions, or a list.
NotYet == [kind |-> "none", items |-> <<>>]
Indeterminate == [kind |-> "Indeterminate", items |-> <<>>]
List(s) == [kind |-> "list", items |-> s]

-----------------------------------------------------------------------------
(* Exact fractions *)

Abs(x) == IF x < 0 THEN -x ELSE x
Min2(a, b) == IF a < b THEN a ELSE b
Max2(a, b) == IF a < b THEN b ELSE a

\* (A one-element set, here and below, only names a value, so that it is
\* computed once wherever the definition is used.)
RECURSIVE GCD(_, _)
GCD(a, b) ==
    IF b = 0 THEN a ELSE CHOOSE g \in {GCD(b, r) : r \in {a % b}} : TRUE

\* the fraction n/d in lowest terms, with a positive denominator
Frac(n, d) ==
    CHOOSE f \in
        { CHOOSE f \in {<<x \div g, y \div g>> : g \in {GCD(Abs(x), Abs(y))}} : TRUE :
            x \in {IF d < 0 THEN -n ELSE n}, y \in {Abs(d)} } : TRUE

FInt(n) == <<n, 1>>
Zero == <<0, 1>>
One == <<1, 1>>
Half == <<1, 2>>
FAdd(a, b) == Frac(a[1] * b[2] + b[1] * a[2], a[2] * b[2])
FSub(a, b) == Frac(a[1] * b[2] - b[1] * a[2], a[2] * b[2])
FMul(a, b) == Frac(a[1] * b[1], a[2] * b[2])
FLt(a, b) == a[1] * b[2] < b[1] * a[2]
FLe(a, b) == a[1] * b[2] <= b[1] * a[2]
FAbs(a) == <<Abs(a[1]), a[2]>>
FMax(a, b) == IF FLt(a, b) THEN b ELSE a
\* 0.5 ** i
HalfPow(i) == <<1, 2 ^ i>>

-----------------------------------------------------------------------------
(* lib/utils.js *)

\* Number.EPSILON is 2^-52.  The model's integers are 32 bits wide, so it
\* stands at 2^-20: every difference compared against a multiple of it is
\* zero or at least 2^-8, which both values tell apart the same way.
NumberEPSILON == <<1, 2 ^ 20>>

approx(x, y, eps) ==
    \/ x = y
    \/ FLt(FAbs(FSub(x, y)), FMul(FMax(One, FMax(FAbs(x), FAbs(y))), eps))

\* Math.round on a fraction: floor(x + 0.5)
Round(x) == (2 * x[1] + x[2]) \div (2 * x[2])

snapToInteger(x, eps) ==
    IF approx(x, FInt(Round(x)), eps) THEN FInt(Round(x)) ELSE x

-----------------------------------------------------------------------------
(* the solvers edges.js imports from ./math.js (in src: lib/point.js)       *)
(*                                                                         *)
(* The coefficients are integers.  The solvers are modelled over the reals *)
(* on the inputs whose real roots are rational numbers (IsSolvable): there *)
(* Math.sqrt, Math.cbrt and the trigonometric branch have exact values.    *)

FNeg(a) == <<-a[1], a[2]>>
\* a / b for b # 0
FDiv(a, b) == Frac(a[1] * b[2], a[2] * b[1])

\* the largest s in lo..hi with s * s <= d, given lo * lo <= d
RECURSIVE SqrtIn(_, _, _)
SqrtIn(d, lo, hi) ==
    IF lo = hi THEN lo
    ELSE CHOOSE r \in
             { IF mid * mid <= d THEN SqrtIn(d, mid, hi) ELSE SqrtIn(d, lo, mid - 1) :
                 mid \in {(lo + hi + 1) \div 2} } : TRUE

IsSquare(d) == d >= 0 /\ \E s \in {SqrtIn(d, 0, Min2(d, 46340))} : s * s = d

\* Math.sqrt(d) for a d that is a square; there is no value otherwise
Sqrt(d) == CHOOSE s \in {SqrtIn(d, 0, Min2(d, 46340))} : s * s = d

\* the largest s in lo..hi with s * s * s <= d, given lo * lo * lo <= d
RECURSIVE CbrtIn(_, _, _)
CbrtIn(d, lo, hi) ==
    IF lo = hi THEN lo
    ELSE CHOOSE r \in
             { IF mid * mid * mid <= d THEN CbrtIn(d, mid, hi) ELSE CbrtIn(d, lo, mid - 1) :
                 mid \in {(lo + hi + 1) \div 2} } : TRUE

\* the cube root of a natural number that is a cube
NatCbrt(d) == CHOOSE s \in {CbrtIn(d, 0, Min2(d, 1290))} : s * s * s = d

\* Math.cbrt(x) for a fraction x that is the cube of a fraction
Cbrt(x) ==
    IF x[1] < 0 THEN <<-NatCbrt(-x[1]), NatCbrt(x[2])>>
    ELSE <<NatCbrt(x[1]), NatCbrt(x[2])>>

solveLinearAllEmpty(c0, c1) ==
    IF c1 = 0 THEN List(<<>>) ELSE List(<<Frac(-c0, c1)>>)

solveLinearEq(c0, c1) ==
    IF c1 = 0
    THEN IF c0 = 0 THEN Indeterminate ELSE List(<<>>)
    ELSE List(<<Frac(-c0, c1)>>)

solveQuadraticEq(c0, c1, c2) ==
    IF c2 = 0 THEN solveLinearEq(c0, c1)
    ELSE LET d == c1 * c1 - 4 * c2 * c0 IN
         IF d < 0 THEN List(<<>>)
         ELSE IF d = 0 THEN List(<<Frac(-c1, 2 * c2)>>)
         ELSE IF c1 >= 0
              THEN LET r2 == Frac(-c1 - Sqrt(d), 2 * c2)
                       r1 == FDiv(Frac(c0, c2), r2)
                   IN  List(<<r1, r2>>)
              ELSE LET r1 == Frac(-c1 + Sqrt(d), 2 * c2)
                       r2 == FDiv(Frac(c0, c2), r1)
                   IN  List(<<r1, r2>>)

\* c0 + c1 t + c2 t^2 + c3 t^3 at t = n / m, times m^3
PolyAt(c0, c1, c2, c3, n, m) ==
    c3 * n * n * n + c2 * n * n * m + c1 * n * m * m + c0 * m * m * m

Divisors(k) == {m \in 1..k : k % m = 0}

\* The rational roots of a cubic with c3 # 0.  Zero is one if c0 = 0; any
\* other one, in lowest terms n / m, has n dividing the lowest coefficient
\* that is not zero and m dividing c3.
RationalRoots(c0, c1, c2, c3) ==
    LET low == IF c0 # 0 THEN c0 ELSE IF c1 # 0 THEN c1 ELSE IF c2 # 0 THEN c2 ELSE c3
        cands == {<<sg * n, m>> : sg \in {-1, 1},
                                  n \in Divisors(Abs(low)), m \in Divisors(Abs(c3))}
                 \cup {<<0, 1>>}
    IN  {Frac(nm[1], nm[2]) :
            nm \in {c \in cands : PolyAt(c0, c1, c2, c3, c[1], c[2]) = 0}}

FLeast(S) == CHOOSE x \in S : \A y \in S : FLe(x, y)
FGreatest(S) == CHOOSE x \in S : \A y \in S : FLe(y, x)

\* p, q and d of the code, times c3^2, c3^3 and c3^6: the same signs
CubicP(c1, c2, c3) == 3 * c1 * c3 - c2 * c2
CubicQ(c0, c1, c2, c3) == 27 * c0 * c3 * c3 - 9 * c1 * c2 * c3 + 2 * c2 * c2 * c2
CubicD(c0, c1, c2, c3) ==
    CubicQ(c0, c1, c2, c3) * CubicQ(c0, c1, c2, c3)
    + 4 * CubicP(c1, c2, c3) * CubicP(c1, c2, c3) * CubicP(c1, c2, c3)

\* The roots returned for c3 # 0, given the set of the real roots.
\* With t = (u - a2) / 3 the cubic is u^3 + 3 p u + q = 0, and d is minus
\* 27 times its discriminant.  d < 0: three real roots, and the code's
\* 2 rc cos(a / 3), 2 rc cos((a + 2 pi) / 3), 2 rc cos((a - 2 pi) / 3), with
\* 0 < a < pi, are the largest, the smallest and the middle u.  d = 0 and
\* q # 0: rc^3 = -q / 2, a simple root and then the double root.  d > 0:
\* rc1 + rc2 is the only real u (Cardano), whichever cube root comes first.
CubicRoots(c0, c1, c2, c3, roots) ==
    LET a0 == Frac(c0, c3)
        a1 == Frac(c1, c3)
        a2 == Frac(c2, c3)
        q == FAdd(FSub(FMul(FInt(27), a0), FMul(FInt(9), FMul(a1, a2))),
                  FMul(FInt(2), FMul(a2, FMul(a2, a2))))
        d == CubicD(c0, c1, c2, c3)
        third(u) == FMul(FSub(u, a2), <<1, 3>>)
    IN  IF d < 0
        THEN LET hi == FGreatest(roots)
                 lo == FLeast(roots)
                 mid == CHOOSE r \in roots : r # hi /\ r # lo
             IN  List(<<hi, lo, mid>>)
        ELSE IF d = 0
        THEN IF q = Zero THEN List(<<third(Zero)>>)
             ELSE LET rc == Cbrt(FMul(q, <<-1, 2>>))
                  IN  List(<<third(FMul(FInt(2), rc)), third(FNeg(rc))>>)
        ELSE List(<<CHOOSE r \in roots : TRUE>>)

\* the coefficients divided by their greatest common divisor: the same
\* equation, the same roots, the same coefficients equal to zero
Primitive(c) ==
    CHOOSE pc \in
        { IF g = 0 THEN c ELSE [k \in 1..Len(c) |-> c[k] \div g] :
            g \in {GCD(GCD(Abs(c[1]), Abs(c[2])), GCD(Abs(c[3]), Abs(c[4])))} } : TRUE

solveCubicEq(c0, c1, c2, c3) ==
    IF c3 = 0 THEN solveQuadraticEq(c0, c1, c2)
    ELSE CHOOSE r \in
             { CubicRoots(pc[1], pc[2], pc[3], pc[4],
                          RationalRoots(pc[1], pc[2], pc[3], pc[4])) :
                 pc \in {Primitive(<<c0, c1, c2, c3>>)} } : TRUE

\* the inputs on which the values above are those of the code over the reals
IsSolvable(c0, c1, c2, c3) ==
    /\ c2 # 0 => (c1 * c1 - 4 * c2 * c0 < 0 \/ IsSquare(c1 * c1 - 4 * c2 * c0))
    /\ c3 # 0 =>
           \E pc \in {Primitive(<<c0, c1, c2, c3>>)} :
               LET d == CubicD(pc[1], pc[2], pc[3], pc[4])
                   n == Cardinality(RationalRoots(pc[1], pc[2], pc[3], pc[4]))
               IN  (d < 0 => n = 3) /\ (d > 0 => n = 1)

-----------------------------------------------------------------------------
(* lib/geom.js *)

Pt(x, y) == [x |-> x, y |-> y]
equals(p, q) == p.x = q.x /\ p.y = q.y

Rect(x, y, w, h) == [x |-> x, y |-> y, width |-> w, height |-> h]
left(r) == r.x
right(r) == r.x + r.width
top(r) == r.y
bottom(r) == r.y + r.height
topLeft(r) == Pt(left(r), top(r))
isPoint(r) == r.width = 0 /\ r.height = 0

contains(r, p) ==
    /\ left(r) < p.x /\ p.x < right(r)
    /\ top(r) < p.y /\ p.y < bottom(r)

overlaps(r, s) ==
    /\ left(r) < right(s) /\ left(s) < right(r)
    /\ top(r) < bottom(s) /\ top(s) < bottom(r)

\* p lies on one of the four sides, corners included
hasOnEdge(r, p) ==
    /\ left(r) <= p.x /\ p.x <= right(r)
    /\ top(r) <= p.y /\ p.y <= bottom(r)
    /\ (p.x = left(r) \/ p.x = right(r) \/ p.y = top(r) \/ p.y = bottom(r))

\* the closed rectangles meet but the open ones do not
contacts(r, s) ==
    /\ left(r) <= right(s) /\ left(s) <= right(r)
    /\ top(r) <= bottom(s) /\ top(s) <= bottom(r)
    /\ ~overlaps(r, s)

-----------------------------------------------------------------------------
(* lib/edges.js: Line, QuadraticBezier and CubicBezier *)

Line(s, e) == [deg |-> 1, pts |-> <<s, e>>]
QuadraticBezier(s, c, e) == [deg |-> 2, pts |-> <<s, c, e>>]
CubicBezier(s, c1, c2, e) == [deg |-> 3, pts |-> <<s, c1, c2, e>>]

\* degree(), with every edge taken for a line
degreeOne(e) == 1

start(e) == e.pts[1]
end(e) == e.pts[Len(e.pts)]
control(e) == e.pts[2]
control1(e) == e.pts[2]
control2(e) == e.pts[3]
degree(e) == e.deg

\* a point with fraction coordinates
FPt(x, y) == [x |-> x, y |-> y]
ToF(p) == FPt(FInt(p.x), FInt(p.y))
FScale(p, k) == FPt(FMul(p.x, k), FMul(p.y, k))
FPlus(p, q) == FPt(FAdd(p.x, q.x), FAdd(p.y, q.y))

\* pointAt(t) for any t, with fraction coordinates
pointAt(e, t) ==
    LET u == FSub(One, t) IN
    IF e.deg = 1
    THEN FPlus(FScale(ToF(start(e)), u), FScale(ToF(end(e)), t))
    ELSE IF e.deg = 2
    THEN FPlus(FPlus(FScale(ToF(start(e)), FMul(u, u)),
                     FScale(ToF(control(e)), FMul(FInt(2), FMul(u, t)))),
               FScale(ToF(end(e)), FMul(t, t)))
    ELSE FPlus(FPlus(FPlus(FScale(ToF(start(e)), FMul(u, FMul(u, u))),
                           FScale(ToF(control1(e)), FMul(FInt(3), FMul(FMul(u, u), t)))),
                     FScale(ToF(control2(e)), FMul(FInt(3), FMul(u, FMul(t, t))))),
               FScale(ToF(end(e)), FMul(t, FMul(t, t))))

\* a fraction that is an integer, as that integer; there is no value if it
\* is not one
IntOf(f) == CHOOSE n \in {f[1]} : f[2] = 1
IntPt(p) == Pt(IntOf(p.x), IntOf(p.y))

\* num / den when it is strictly between 0 and 1; a zero denominator gives
\* an infinity or NaN in the code, which is not kept
Interior(num, den) ==
    IF den = 0 THEN <<>>
    ELSE IF FLt(Zero, Frac(num, den)) /\ FLt(Frac(num, den), One)
         THEN <<Frac(num, den)>> ELSE <<>>

\* QuadraticBezier: tx = (start - control) / (start - 2 control + end)
InteriorExtreme(s, c, e) == Interior(s - c, s - 2 * c + e)

\* CubicBezier: the roots of the derivative on one axis, -(b - s) / a first,
\* or the root of the linear derivative when a = 0; Math.sqrt of a negative
\* number is NaN, which is not kept
CubicExtremes(s, c1, c2, e) ==
    LET a == -s + 3 * c1 - 3 * c2 + e
        b == s - 2 * c1 + c2
        c == -s + c1
    IN  IF a # 0
        THEN IF b * b - a * c < 0 THEN <<>>
             ELSE Interior(-(b - Sqrt(b * b - a * c)), a)
                  \o Interior(-(b + Sqrt(b * b - a * c)), a)
        ELSE Interior(s - c1, 2 * (s - 2 * c1 + c2))

\* ets.add(t) for each t of ts in turn: a Set keeps the first of equal values
RECURSIVE AddAll(_, _)
AddAll(ets, ts) ==
    IF ts = <<>> THEN ets
    ELSE IF \E k \in 1..Len(ets) : ets[k] = Head(ts) THEN AddAll(ets, Tail(ts))
    ELSE AddAll(Append(ets, Head(ts)), Tail(ts))

\* the members of the Set ets after 0 and 1, in the order they were added
extremeTs(e) ==
    IF e.deg = 1 THEN <<>>
    ELSE IF e.deg = 2
    THEN AddAll(InteriorExtreme(start(e).x, control(e).x, end(e).x),
                InteriorExtreme(start(e).y, control(e).y, end(e).y))
    ELSE AddAll(AddAll(<<>>, CubicExtremes(start(e).x, control1(e).x,
                                           control2(e).x, end(e).x)),
                CubicExtremes(start(e).y, control1(e).y, control2(e).y, end(e).y))

\* the edges on which the square roots taken by extremePoints are rational
HasExactExtremes(e) ==
    e.deg = 3 =>
        \A ax \in {<<start(e).x, control1(e).x, control2(e).x, end(e).x>>,
                    <<start(e).y, control1(e).y, control2(e).y, end(e).y>>} :
            LET a == -ax[1] + 3 * ax[2] - 3 * ax[3] + ax[4]
                b == ax[1] - 2 * ax[2] + ax[3]
                c == -ax[1] + ax[2]
            IN  a # 0 => (b * b - a * c < 0 \/ IsSquare(b * b - a * c))

\* extremePoints() of the three classes.  (The edges given to intersections
\* have no interior extreme point, and those given to selfIntersections
\* have their interior extreme points at integer coordinates: see the top.)
extremePoints(e) ==
    CHOOSE eps \in
        { << [t |-> Zero, point |-> start(e)], [t |-> One, point |-> end(e)] >>
          \o [k \in 1..Len(ts) |->
                 [t |-> ts[k], point |-> IntPt(pointAt(e, ts[k]))]] :
            ts \in {extremeTs(e)} } : TRUE

Least(S) == CHOOSE x \in S : \A y \in S : x <= y
Greatest(S) == CHOOSE x \in S : \A y \in S : y <= x

boundingBox(e) ==
    CHOOSE bb \in
        { LET xs == {eps[k].point.x : k \in 1..Len(eps)}
              ys == {eps[k].point.y : k \in 1..Len(eps)}
          IN  Rect(Least(xs), Least(ys),
                   Greatest(xs) - Least(xs), Greatest(ys) - Least(ys)) :
            eps \in {extremePoints(e)} } : TRUE

-----------------------------------------------------------------------------
(* lib/edges.js: the line/line intersector *)

pointFromParams(e1, e2, t1, t2) ==
    [t1 |-> t1, t2 |-> t2,
     point |-> FScale(FPlus(pointAt(e1, t1), pointAt(e2, t2)), Half)]

\* Indeterminate, the empty list, or the list <<t1, t2>>
intersecionsLLParams(l1, l2) ==
    LET dx1 == end(l1).x - start(l1).x
        dy1 == end(l1).y - start(l1).y
        dx2 == end(l2).x - start(l2).x
        dy2 == end(l2).y - start(l2).y
        dsx == start(l1).x - start(l2).x
        dsy == start(l1).y - start(l2).y
        a == dx1 * dy2 - dx2 * dy1
        b1 == dx2 * dsy - dy2 * dsx
        b2 == dx1 * dsy - dy1 * dsx
    IN  IF a = 0
        THEN IF b1 = 0 \/ b2 = 0 THEN Indeterminate ELSE List(<<>>)
        ELSE List(<<Frac(b1, a), Frac(b2, a)>>)

\* the pairs of extreme points that are the same point, edge 1 outermost
SharedEnds(l1, l2) ==
    LET eps1 == extremePoints(l1)
        eps2 == extremePoints(l2)
        pair(k) == <<eps1[((k - 1) \div 2) + 1], eps2[((k - 1) % 2) + 1]>>
        hit(k) == equals(pair(k)[1].point, pair(k)[2].point)
        item(k) == [t1 |-> pair(k)[1].t, t2 |-> pair(k)[2].t,
                    point |-> ToF(pair(k)[1].point)]
        F[k \in 0..4] ==
            IF k = 0 THEN <<>>
            ELSE IF hit(k) THEN Append(F[k - 1], item(k)) ELSE F[k - 1]
    IN  F[4]

intersectionsLL(l1, l2) ==
    LET bb1 == boundingBox(l1)
        bb2 == boundingBox(l2)
        ps == intersecionsLLParams(l1, l2)
    IN  IF ~overlaps(bb1, bb2)
        THEN IF contacts(bb1, bb2) THEN List(SharedEnds(l1, l2)) ELSE List(<<>>)
        ELSE IF ps = Indeterminate THEN Indeterminate
        ELSE IF Len(ps.items) = 0 THEN List(<<>>)
        ELSE LET t1 == ps.items[1]
                 t2 == ps.items[2]
             IN  IF FLe(Zero, t1) /\ FLe(t1, One) /\ FLe(Zero, t2) /\ FLe(t2, One)
                 THEN List(<<pointFromParams(l1, l2, t1, t2)>>)
                 ELSE List(<<>>)

-----------------------------------------------------------------------------
(* lib/edges.js: the deduplicator *)

\* epsilon for X and Y coordinates, epsilon for t values, and the default of
\* the epsilon argument
X_EPSILON == FMul(FInt(4), NumberEPSILON)
T_EPSILON == FMul(FInt(8), NumberEPSILON)
DefaultEpsilon == FMul(FInt(2), T_EPSILON)

\* approx(x, y, Math.max(Math.SQRT2 * s, eps)): |x - y| is below the larger
\* of the two bounds iff it is below one of them, and below m * sqrt(2) * s
\* iff its square is below 2 * (m * s)^2
approxMax(x, y, s, eps) ==
    LET d == FAbs(FSub(x, y))
        m == FMax(One, FMax(FAbs(x), FAbs(y)))
        ms == FMul(m, s)
    IN  \/ x = y
        \/ FLt(FMul(d, d), FMul(FInt(2), FMul(ms, ms)))
        \/ FLt(d, FMul(m, eps))

close(r1, r2, eps) ==
    /\ approxMax(r1.t1, r2.t1, FAdd(r1.err, r2.err), eps)
    /\ approxMax(r1.t2, r2.t2, FAdd(r1.err, r2.err), eps)

\* what one comparison of res[i] with res[j] does to the `removed` array
markSwapped(rs, removed, i, j) ==
    IF FLt(rs[j].err, rs[i].err) THEN [removed EXCEPT ![j] = TRUE]
    ELSE IF FLt(rs[i].err, rs[j].err) THEN [removed EXCEPT ![i] = TRUE]
    ELSE [removed EXCEPT ![j] = TRUE]

markNoTie(rs, removed, i, j) ==
    IF FLt(rs[j].err, rs[i].err) THEN [removed EXCEPT ![i] = TRUE]
    ELSE IF FLt(rs[i].err, rs[j].err) THEN [removed EXCEPT ![j] = TRUE]
    ELSE removed

mark(rs, removed, i, j) ==
    IF FLt(rs[j].err, rs[i].err) THEN [removed EXCEPT ![i] = TRUE]
    ELSE IF FLt(rs[i].err, rs[j].err) THEN [removed EXCEPT ![j] = TRUE]
    ELSE [removed EXCEPT ![j] = TRUE]

\* the inner loop from j on, for a fixed i
RECURSIVE mergeInner(_, _, _, _, _)
mergeInner(rs, eps, removed, i, j) ==
    IF j > Len(rs) THEN removed
    ELSE IF removed[j] THEN mergeInner(rs, eps, removed, i, j + 1)
    ELSE IF close(rs[i], rs[j], eps)
         THEN CHOOSE R \in {mergeInner(rs, eps, m, i, j + 1) :
                               m \in {mark(rs, removed, i, j)}} : TRUE
         ELSE mergeInner(rs, eps, removed, i, j + 1)

\* the outer loop from i on
RECURSIVE mergeOuter(_, _, _, _)
mergeOuter(rs, eps, removed, i) ==
    IF i > Len(rs) THEN removed
    ELSE IF removed[i] THEN mergeOuter(rs, eps, removed, i + 1)
    ELSE CHOOSE R \in {mergeOuter(rs, eps, m, i + 1) :
                          m \in {mergeInner(rs, eps, removed, i, i + 1)}} : TRUE

\* the `removed` array at the end of the pass
mergeRemoved(rs, eps) == mergeOuter(rs, eps, [k \in 1..Len(rs) |-> FALSE], 1)

\* res.filter((_, i) => !removed[i])
Keep(rs, removed) ==
    LET F[k \in 0..Len(rs)] ==
            IF k = 0 THEN <<>>
            ELSE IF removed[k] THEN F[k - 1] ELSE Append(F[k - 1], rs[k])
    IN  F[Len(rs)]

mergeNeighboringPoints(rs, eps) ==
    CHOOSE R \in {Keep(rs, m) : m \in {mergeRemoved(rs, eps)}} : TRUE

-----------------------------------------------------------------------------
(* lib/edges.js: what the engine asks of an edge *)

\* n / 2 for an n that is even: the grid keeps every halving exact, and the
\* CHOOSE has no value if it ever were not
Halve(n) == CHOOSE k \in {n \div 2} : 2 * k = n
MidPt(p, q) == Pt(Halve(p.x + q.x), Halve(p.y + q.y))

\* pointAt(0.5), a grid point
pointAtHalf(e) ==
    IF e.deg = 1 THEN MidPt(start(e), end(e))
    ELSE MidPt(MidPt(start(e), control(e)), MidPt(control(e), end(e)))

\* splitAt(0.5); and the same with the two halves in the other order
splitAtHalfSwapped(e) ==
    IF e.deg = 1
    THEN << Line(pointAtHalf(e), end(e)), Line(start(e), pointAtHalf(e)) >>
    ELSE << QuadraticBezier(pointAtHalf(e), MidPt(control(e), end(e)), end(e)),
            QuadraticBezier(start(e), MidPt(start(e), control(e)), pointAtHalf(e)) >>

splitAtHalf(e) ==
    IF e.deg = 1
    THEN << Line(start(e), pointAtHalf(e)), Line(pointAtHalf(e), end(e)) >>
    ELSE << QuadraticBezier(start(e), MidPt(start(e), control(e)), pointAtHalf(e)),
            QuadraticBezier(pointAtHalf(e), MidPt(control(e), end(e)), end(e)) >>

\* a.scale(1 - t).add(b.scale(t))
Lerp(a, b, t) == FPlus(FScale(ToF(a), FSub(One, t)), FScale(ToF(b), t))

\* a.scale((1 - t) ** 2).add(b.scale(2 * (1 - t) * t)).add(c.scale(t ** 2))
Lerp2(a, b, c, t) ==
    LET u == FSub(One, t) IN
    FPlus(FPlus(FScale(ToF(a), FMul(u, u)), FScale(ToF(b), FMul(FInt(2), FMul(u, t)))),
          FScale(ToF(c), FMul(t, t)))

\* splitAt(t), on the inputs whose split points have integer coordinates
splitAt(e, t) ==
    LET middle == IntPt(pointAt(e, t)) IN
    IF e.deg = 1
    THEN << Line(start(e), middle), Line(middle, end(e)) >>
    ELSE IF e.deg = 2
    THEN << QuadraticBezier(start(e), IntPt(Lerp(start(e), control(e), t)), middle),
            QuadraticBezier(middle, IntPt(Lerp(control(e), end(e), t)), end(e)) >>
    ELSE << CubicBezier(start(e), IntPt(Lerp(start(e), control1(e), t)),
                        IntPt(Lerp2(start(e), control1(e), control2(e), t)), middle),
            CubicBezier(middle, IntPt(Lerp2(control1(e), control2(e), end(e), t)),
                        IntPt(Lerp(control2(e), end(e), t)), end(e)) >>

\* deviationFromLine: a number, Infinity, or the NaN of 0 / 0
Num(f) == [kind |-> "num", v |-> f]
Infinity == [kind |-> "inf", v |-> Zero]
NaN == [kind |-> "nan", v |-> Zero]

deviationFromLine(e) ==
    IF e.deg = 1 THEN Num(Zero)
    ELSE LET sex == end(e).x - start(e).x
             sey == end(e).y - start(e).y
             seSq == sex * sex + sey * sey
             l == sex * (control(e).x - start(e).x) + sey * (control(e).y - start(e).y)
             spx == pointAtHalf(e).x - start(e).x
             spy == pointAtHalf(e).y - start(e).y
             dp == sex * spy - sey * spx
         IN  IF l < 0 \/ seSq < l THEN Infinity
             ELSE IF seSq = 0 THEN (IF dp = 0 THEN NaN ELSE Infinity)
             ELSE Num(Frac(Abs(dp), seSq))

\* dl < m and dl === 0 for a deviation dl; and dl is a number
DevIsNumber(dl) == dl.kind = "num"
DevBelow(dl, m) == dl.kind = "num" /\ FLt(dl.v, m)
DevIsZero(dl) == dl.kind = "num" /\ dl.v = Zero

\* the roots of one axis for paramsForPoint
axisRoots(e, sc, cc, ec, pc) ==
    IF e.deg = 1 THEN solveLinearEq(sc - pc, ec - sc)
    ELSE solveQuadraticEq(sc - pc, -2 * (sc - cc), sc - 2 * cc + ec)

\* the same for a CubicBezier
cubicAxisRoots(sc, c1, c2, ec, pc) ==
    solveCubicEq(sc - pc, -3 * (sc - c1), 3 * (sc - 2 * c1 + c2),
                 -sc + 3 * c1 - 3 * c2 + ec)

InUnit(t) == FLe(Zero, t) /\ FLe(t, One)

\* roots.filter(t => 0 <= t && t <= 1).map(t => snapToInteger(t, eps))
SnapUnit(roots, eps) ==
    LET F[k \in 0..Len(roots)] ==
            IF k = 0 THEN <<>>
            ELSE IF InUnit(roots[k])
                 THEN Append(F[k - 1], snapToInteger(roots[k], eps))
                 ELSE F[k - 1]
    IN  F[Len(roots)]

\* a loop that pairs the k-th root of one axis with the k-th of the other only
PairDiagonal(txs, tys, eps) ==
    LET n == IF Len(txs) < Len(tys) THEN Len(txs) ELSE Len(tys)
        F[k \in 0..n] ==
            IF k = 0 THEN <<>>
            ELSE IF /\ FLe(Zero, txs[k]) /\ FLe(txs[k], One)
                    /\ FLe(Zero, tys[k]) /\ FLe(tys[k], One)
                    /\ approx(txs[k], tys[k], eps)
                 THEN Append(F[k - 1], snapToInteger(FMul(FAdd(txs[k], tys[k]), Half), eps))
                 ELSE F[k - 1]
    IN  F[n]

\* the double loop over txs and tys, tx outermost
PairUnit(txs, tys, eps) ==
    LET n == Len(tys)
        F[k \in 0..(Len(txs) * n)] ==
            IF k = 0 THEN <<>>
            ELSE LET tx == txs[((k - 1) \div n) + 1]
                     ty == tys[((k - 1) % n) + 1]
                 IN  IF InUnit(tx) /\ InUnit(ty) /\ approx(tx, ty, eps)
                     THEN Append(F[k - 1], snapToInteger(FMul(FAdd(tx, ty), Half), eps))
                     ELSE F[k - 1]
    IN  F[Len(txs) * n]

paramsForPoint(e, p, eps) ==
    CHOOSE r \in
        { IF txs = Indeterminate /\ tys = Indeterminate THEN Indeterminate
          ELSE IF txs = Indeterminate THEN List(SnapUnit(tys.items, eps))
          ELSE IF tys = Indeterminate THEN List(SnapUnit(txs.items, eps))
          ELSE List(PairUnit(txs.items, tys.items, eps)) :
            txs \in { IF e.deg = 3
                      THEN cubicAxisRoots(start(e).x, control1(e).x, control2(e).x,
                                          end(e).x, p.x)
                      ELSE axisRoots(e, start(e).x, control(e).x, end(e).x, p.x) },
            tys \in { IF e.deg = 3
                      THEN cubicAxisRoots(start(e).y, control1(e).y, control2(e).y,
                                          end(e).y, p.y)
                      ELSE axisRoots(e, start(e).y, control(e).y, end(e).y, p.y) } } : TRUE

approxPoints(p1, p2, eps) ==
    approx(FInt(p1.x), FInt(p2.x), eps) /\ approx(FInt(p1.y), FInt(p2.y), eps)

\* almost intersectionsLL, but the ends of the two segments do not count
intersectionsLLBulk(l1, l2) ==
    LET ps == intersecionsLLParams(l1, l2) IN
    IF ps = Indeterminate THEN Indeterminate
    ELSE IF Len(ps.items) = 0 THEN List(<<>>)
    ELSE LET t1 == ps.items[1]
             t2 == ps.items[2]
         IN  IF FLt(Zero, t1) /\ FLt(t1, One) /\ FLt(Zero, t2) /\ FLt(t2, One)
             THEN List(<<[t1 |-> t1, t2 |-> t2, err |-> Zero]>>)
             ELSE List(<<>>)

-----------------------------------------------------------------------------
(* lib/edges.js: _intersectionsWithSpecialPoints *)

\* The arguments of a call are a record c = [edge1, edge2, depth, epsilon,
\* maxIteration]; its locals are a record S = [queue, res, exactRes, itr,
\* ret, last], where ret is "running" until the call returns and last notes
\* what the task processed last did.

Task(i, type, pair, t1, t2) ==
    [i |-> i, type |-> type, pair |-> pair, t1 |-> t1, t2 |-> t2]

maxIntersections(c) == degree(c.edge1) * degree(c.edge2)

\* err and delta of a task of depth i; and a delta of 0.5 ** (i + 1)
ErrAt(i) == FMax(HalfPow(i), NumberEPSILON)
DeltaWide(i) == HalfPow(i + 1)
Delta(i) == HalfPow(i + 2)

\* i >= depth || (maxIteration >= 0 && itr >= maxIteration)
NoBudgetCheck(c, i, n) == i >= c.depth

ExhaustedLate(c, i, n) ==
    i > c.depth \/ (c.maxIteration >= 0 /\ n >= c.maxIteration)

Exhausted(c, i, n) ==
    i >= c.depth \/ (c.maxIteration >= 0 /\ n >= c.maxIteration)

\* exactRes.some(r => approx(r.t1, t1, epsilon) && approx(r.t2, t2, epsilon)),
\* and the same test made on the latest exact result only
KnownLatest(S, t1, t2, eps) ==
    \E k \in {Len(S.exactRes)} \ {0} :
        approx(S.exactRes[k].t1, t1, eps) /\ approx(S.exactRes[k].t2, t2, eps)

Known(S, t1, t2, eps) ==
    \E k \in 1..Len(S.exactRes) :
        approx(S.exactRes[k].t1, t1, eps) /\ approx(S.exactRes[k].t2, t2, eps)

pushResult(S, t1, t2, err, eps) ==
    IF Known(S, t1, t2, eps) THEN S
    ELSE LET r == [t1 |-> t1, t2 |-> t2, err |-> err] IN
         [S EXCEPT !.res = Append(@, r),
                   !.exactRes = IF err = Zero THEN Append(@, r) ELSE @]

\* the calls of pushResult of one task, in order
PushAll(S, items, eps) ==
    LET F[k \in 0..Len(items)] ==
            IF k = 0 THEN S
            ELSE pushResult(F[k - 1], items[k].t1, items[k].t2, items[k].err, eps)
    IN  F[Len(items)]

\* What the switch does for one task: the tasks it enqueues, the results it
\* hands to pushResult, whether it returns undefined, and notes on the path
\* taken.
Did(enq, push, undef, box, exh, rec, chord) ==
    [enq |-> enq, push |-> push, undef |-> undef,
     boxpass |-> box, exhausted |-> exh, recovery |-> rec, chord |-> chord]

Result(t1, t2, err) == [t1 |-> t1, t2 |-> t2, err |-> err]

\* (x - 0.5) * 0.5 ** i, and the same without the shift to the centre
OffsetUnshifted(x, i) == FMul(x, HalfPow(i))
Offset(x, i) == FMul(FSub(x, Half), HalfPow(i))

\* the exact results of root recovery, the roots 0 and 1 left out
RootResultsT2(roots, t1, t2, i) ==
    LET F[k \in 0..Len(roots)] ==
            IF k = 0 THEN <<>>
            ELSE IF roots[k] = Zero \/ roots[k] = One THEN F[k - 1]
                 ELSE Append(F[k - 1], Result(t1, FAdd(t2, Offset(roots[k], i)), Zero))
    IN  F[Len(roots)]

RootResultsT1(roots, t1, t2, i) ==
    LET F[k \in 0..Len(roots)] ==
            IF k = 0 THEN <<>>
            ELSE IF roots[k] = Zero \/ roots[k] = One THEN F[k - 1]
                 ELSE Append(F[k - 1], Result(FAdd(t1, Offset(roots[k], i)), t2, Zero))
    IN  F[Len(roots)]

casePP(c, n, task) ==
    LET p1 == task.pair[1]
        p2 == task.pair[2]
    IN  IF approxPoints(p1, p2, X_EPSILON)
        THEN Did(<<>>, <<Result(task.t1, task.t2, Zero)>>, FALSE, FALSE, FALSE, FALSE, FALSE)
        ELSE Did(<<>>, <<>>, FALSE, FALSE, FALSE, FALSE, FALSE)

casePE(c, n, task) ==
    LET i == task.i
        t1 == task.t1
        t2 == task.t2
        p1 == task.pair[1]
        e2 == task.pair[2]
        bb2 == boundingBox(e2)
        onEdge == hasOnEdge(bb2, p1)
        eps2 == extremePoints(e2)
        ends == IF onEdge
                THEN [k \in 1..Len(eps2) |->
                         Task(i, "PP", <<p1, eps2[k].point>>, t1,
                              FAdd(t2, Offset(eps2[k].t, i)))]
                ELSE <<>>
        pt2s == paramsForPoint(e2, p1, T_EPSILON)
        halves == splitAtHalf(e2)
        split == << Task(i, "PP", <<p1, pointAtHalf(e2)>>, t1, t2),
                    Task(i + 1, "PE", <<p1, halves[1]>>, t1, FSub(t2, Delta(i))),
                    Task(i + 1, "PE", <<p1, halves[2]>>, t1, FAdd(t2, Delta(i))) >>
    IN  IF isPoint(bb2)
        THEN Did(<<Task(i, "PP", <<p1, topLeft(bb2)>>, t1, t2)>>, <<>>,
                 FALSE, FALSE, FALSE, FALSE, FALSE)
        ELSE IF ~(onEdge \/ contains(bb2, p1))
        THEN Did(ends, <<>>, FALSE, FALSE, FALSE, FALSE, FALSE)
        ELSE IF Exhausted(c, i, n)
        THEN Did(ends, <<Result(t1, t2, ErrAt(i))>>, FALSE, TRUE, TRUE, FALSE, FALSE)
        ELSE IF pt2s = Indeterminate
        THEN Did(ends, <<>>, TRUE, TRUE, FALSE, TRUE, FALSE)
        ELSE Did(ends \o split, RootResultsT2(pt2s.items, t1, t2, i),
                 FALSE, TRUE, FALSE, TRUE, FALSE)

caseEP(c, n, task) ==
    LET i == task.i
        t1 == task.t1
        t2 == task.t2
        e1 == task.pair[1]
        p2 == task.pair[2]
        bb1 == boundingBox(e1)
        onEdge == hasOnEdge(bb1, p2)
        eps1 == extremePoints(e1)
        ends == IF onEdge
                THEN [k \in 1..Len(eps1) |->
                         Task(i, "PP", <<eps1[k].point, p2>>,
                              FAdd(t1, Offset(eps1[k].t, i)), t2)]
                ELSE <<>>
        pt1s == paramsForPoint(e1, p2, T_EPSILON)
        halves == splitAtHalf(e1)
        split == << Task(i, "PP", <<pointAtHalf(e1), p2>>, t1, t2),
                    Task(i + 1, "EP", <<halves[1], p2>>, FSub(t1, Delta(i)), t2),
                    Task(i + 1, "EP", <<halves[2], p2>>, FAdd(t1, Delta(i)), t2) >>
    IN  IF isPoint(bb1)
        THEN Did(<<Task(i, "PP", <<topLeft(bb1), p2>>, t1, t2)>>, <<>>,
                 FALSE, FALSE, FALSE, FALSE, FALSE)
        ELSE IF ~(onEdge \/ contains(bb1, p2))
        THEN Did(ends, <<>>, FALSE, FALSE, FALSE, FALSE, FALSE)
        ELSE IF Exhausted(c, i, n)
        THEN Did(ends, <<Result(t1, t2, ErrAt(i))>>, FALSE, TRUE, TRUE, FALSE, FALSE)
        ELSE IF pt1s = Indeterminate
        THEN Did(ends, <<>>, TRUE, TRUE, FALSE, TRUE, FALSE)
        ELSE Did(ends \o split, RootResultsT1(pt1s.items, t1, t2, i),
                 FALSE, TRUE, FALSE, TRUE, FALSE)

\* i === 0 ? 0 : Math.min(5e-5 * 2 ** i, 0.1); and the same bound with
\* depth 0 not set apart
maxdlAtEveryDepth(i) ==
    IF FLt(Frac(5 * 2 ^ i, 100000), Frac(1, 10))
    THEN Frac(5 * 2 ^ i, 100000) ELSE Frac(1, 10)

maxdl(i) ==
    IF i = 0 THEN Zero
    ELSE IF FLt(Frac(5 * 2 ^ i, 100000), Frac(1, 10))
         THEN Frac(5 * 2 ^ i, 100000) ELSE Frac(1, 10)

caseEE(c, n, task) ==
    LET i == task.i
        t1 == task.t1
        t2 == task.t2
        e1 == task.pair[1]
        e2 == task.pair[2]
        bb1 == boundingBox(e1)
        bb2 == boundingBox(e2)
        dl1 == deviationFromLine(e1)
        dl2 == deviationFromLine(e2)
        near == DevBelow(dl1, maxdl(i)) /\ DevBelow(dl2, maxdl(i))
        isLL == intersectionsLLBulk(Line(start(e1), end(e1)), Line(start(e2), end(e2)))
        p1 == pointAtHalf(e1)
        p2 == pointAtHalf(e2)
        h1 == splitAtHalf(e1)
        h2 == splitAtHalf(e2)
        d == Delta(i)
        split == << Task(i, "PP", <<p1, p2>>, t1, t2),
                    Task(i + 1, "PE", <<p1, h2[1]>>, t1, FSub(t2, d)),
                    Task(i + 1, "PE", <<p1, h2[2]>>, t1, FAdd(t2, d)),
                    Task(i + 1, "EP", <<h1[1], p2>>, FSub(t1, d), t2),
                    Task(i + 1, "EP", <<h1[2], p2>>, FAdd(t1, d), t2),
                    Task(i + 1, "EE", <<h1[1], h2[1]>>, FSub(t1, d), FSub(t2, d)),
                    Task(i + 1, "EE", <<h1[1], h2[2]>>, FSub(t1, d), FAdd(t2, d)),
                    Task(i + 1, "EE", <<h1[2], h2[1]>>, FAdd(t1, d), FSub(t2, d)),
                    Task(i + 1, "EE", <<h1[2], h2[2]>>, FAdd(t1, d), FAdd(t2, d)) >>
    IN  IF isPoint(bb1)
        THEN Did(IF contains(bb2, topLeft(bb1))
                 THEN <<Task(i, "PE", <<topLeft(bb1), e2>>, t1, t2)>> ELSE <<>>,
                 <<>>, FALSE, FALSE, FALSE, FALSE, FALSE)
        ELSE IF isPoint(bb2)
        THEN Did(IF contains(bb1, topLeft(bb2))
                 THEN <<Task(i, "EP", <<e1, topLeft(bb2)>>, t1, t2)>> ELSE <<>>,
                 <<>>, FALSE, FALSE, FALSE, FALSE, FALSE)
        ELSE IF ~overlaps(bb1, bb2)
        THEN Did(<<>>, <<>>, FALSE, FALSE, FALSE, FALSE, FALSE)
        ELSE IF Exhausted(c, i, n)
        THEN Did(<<>>, <<Result(t1, t2, ErrAt(i))>>, FALSE, TRUE, TRUE, FALSE, FALSE)
        ELSE IF near /\ isLL = Indeterminate /\ DevIsZero(dl1) /\ DevIsZero(dl2)
        THEN Did(<<>>, <<>>, TRUE, TRUE, FALSE, FALSE, TRUE)
        ELSE IF near /\ isLL # Indeterminate /\ Len(isLL.items) = 0
        THEN Did(<<>>, <<>>, FALSE, TRUE, FALSE, FALSE, TRUE)
        ELSE Did(split, <<>>, FALSE, TRUE, FALSE, FALSE, near)

switch(c, n, task) ==
    CASE task.type = "PP" -> casePP(c, n, task)
      [] task.type = "PE" -> casePE(c, n, task)
      [] task.type = "EP" -> caseEP(c, n, task)
      [] task.type = "EE" -> caseEE(c, n, task)

\* exactRes.length > maxIntersections
TooManyOff(c, S) == FALSE

TooMany(c, S) == Len(S.exactRes) > maxIntersections(c)

\* The loop's check after the switch, and itr += 1.  S1 is S after the
\* dequeue and the enqueues of the task, S2 is S1 after its pushResults.
settle(c, S, task, did, S1, S2) ==
    LET note == [type |-> task.type, i |-> task.i, t1 |-> task.t1, t2 |-> task.t2,
                 pair |-> task.pair, n |-> S.itr,
                 boxpass |-> did.boxpass, exhausted |-> did.exhausted,
                 recovery |-> did.recovery, chord |-> did.chord,
                 undef |-> did.undef,
                 pushed |-> Len(S2.res) - Len(S.res),
                 enq |-> did.enq]
    IN  IF did.undef THEN [S1 EXCEPT !.ret = "Indeterminate", !.last = note]
        ELSE IF TooMany(c, S2) THEN [S2 EXCEPT !.ret = "Indeterminate", !.last = note]
        ELSE [S2 EXCEPT !.itr = @ + 1, !.last = note]

\* the task's enqueues and pushResults, then the check
act(c, S, task, did) ==
    CHOOSE R \in
        { settle(c, S, task, d, S1, PushAll(S1, d.push, c.epsilon)) :
            d \in {did}, S1 \in {[S EXCEPT !.queue = Tail(@) \o did.enq]} } : TRUE

\* One turn of the while loop: dequeue, switch, the check of the number of
\* exact results, itr += 1.
turn(c, S, task) ==
    CHOOSE R \in {act(c, S, task, did) : did \in {switch(c, S.itr, task)}} : TRUE

Iterate(c, S) == CHOOSE R \in {turn(c, S, task) : task \in {Head(S.queue)}} : TRUE

NoNote == [type |-> "none"]

\* the queue after the seeding loops; and the same with the EE task
\* enqueued first
SeedEEFirst(c, sp1, sp2) ==
    LET pp == [k \in 1..(Len(sp1) * Len(sp2)) |->
                  LET a == sp1[((k - 1) \div Len(sp2)) + 1]
                      b == sp2[((k - 1) % Len(sp2)) + 1]
                  IN  Task(0, "PP", <<a.point, b.point>>, a.t, b.t)]
        pe == [k \in 1..Len(sp1) |->
                  Task(0, "PE", <<sp1[k].point, c.edge2>>, sp1[k].t, Half)]
        ep == [k \in 1..Len(sp2) |->
                  Task(0, "EP", <<c.edge1, sp2[k].point>>, Half, sp2[k].t)]
    IN  <<Task(0, "EE", <<c.edge1, c.edge2>>, Half, Half)>> \o pp \o pe \o ep

Seed(c, sp1, sp2) ==
    LET pp == [k \in 1..(Len(sp1) * Len(sp2)) |->
                  LET a == sp1[((k - 1) \div Len(sp2)) + 1]
                      b == sp2[((k - 1) % Len(sp2)) + 1]
                  IN  Task(0, "PP", <<a.point, b.point>>, a.t, b.t)]
        pe == [k \in 1..Len(sp1) |->
                  Task(0, "PE", <<sp1[k].point, c.edge2>>, sp1[k].t, Half)]
        ep == [k \in 1..Len(sp2) |->
                  Task(0, "EP", <<c.edge1, sp2[k].point>>, Half, sp2[k].t)]
    IN  pp \o pe \o ep \o <<Task(0, "EE", <<c.edge1, c.edge2>>, Half, Half)>>

Begin(c, sp1, sp2) ==
    [queue |-> Seed(c, sp1, sp2), res |-> <<>>, exactRes |-> <<>>, itr |-> 0,
     ret |-> "running", last |-> NoNote]

\* .map(r => pointFromParams(edge1, edge2, r.t1, r.t2))
MapPoints(e1, e2, rs) ==
    [k \in 1..Len(rs) |-> pointFromParams(e1, e2, rs[k].t1, rs[k].t2)]

Args(e1, e2, d, eps, mi) ==
    [edge1 |-> e1, edge2 |-> e2, depth |-> d, epsilon |-> eps, maxIteration |-> mi]

-----------------------------------------------------------------------------
(* Specification SpecLL: intersectionsLL on every pair of segments whose    *)
(* ends have coordinates in 0..MaxCoord                                     *)

Coords == 0..MaxCoord
LLPoints == {Pt(x, y) : x \in Coords, y \in Coords}
LLLines == {Line(s, e) : s \in LLPoints, e \in LLPoints}

\* the variables of the other entry points, at rest
NoEdge == Line(Pt(0, 0), Pt(0, 0))
LLIdle == line1 = NoEdge /\ line2 = NoEdge /\ llret = NotYet
MergeIdle == mres = <<>> /\ meps = Zero /\ mremoved = <<>> /\ mout = NotYet
EngineIdle ==
    /\ edge1 = NoEdge /\ edge2 = NoEdge
    /\ depth = 0 /\ epsilon = Zero /\ maxIteration = -1
    /\ queue = <<>> /\ res = <<>> /\ exactRes = <<>> /\ itr = 0
    /\ ret = "idle" /\ last = NoNote /\ out = NotYet
SymIdle == symA = NotYet /\ symB = NotYet
NoSelf == [splits |-> <<>>, i |-> 0, j |-> 0, res |-> <<>>, seeded |-> <<>>]
SelfIdle == self = NoSelf
FnIdle == fnArgs = <<>> /\ fnRet = NotYet

InitLL ==
    /\ mode = "LL"
    /\ line1 \in LLLines /\ line2 \in LLLines
    /\ llret = NotYet
    /\ MergeIdle /\ EngineIdle /\ SymIdle /\ SelfIdle /\ FnIdle

CallLL ==
    /\ mode = "LL" /\ llret = NotYet
    /\ llret' = intersectionsLL(line1, line2)
    /\ UNCHANGED <<mode, line1, line2, mres, meps, mremoved, mout,
                   edge1, edge2, depth, epsilon, maxIteration,
                   queue, res, exactRes, itr, ret, last, out, symA, symB,
                   self, fnArgs, fnRet>>

NextLL == CallLL

SpecLL == InitLL /\ [][NextLL]_vars

(* Geometry the claims about intersectionsLL are stated against *)

\* twice the signed area of the triangle p, q, r
Orient(p, q, r) == (q.x - p.x) * (r.y - p.y) - (q.y - p.y) * (r.x - p.x)
Sign(x) == IF x < 0 THEN -1 ELSE IF x > 0 THEN 1 ELSE 0

\* r lies on the closed segment p q, given that p, q, r are on one line
Within(p, q, r) ==
    /\ Min2(p.x, q.x) <= r.x /\ r.x <= Max2(p.x, q.x)
    /\ Min2(p.y, q.y) <= r.y /\ r.y <= Max2(p.y, q.y)

\* the two closed segments have a common point
SegmentsMeet(l1, l2) ==
    LET p1 == start(l1)
        p2 == end(l1)
        q1 == start(l2)
        q2 == end(l2)
        o1 == Sign(Orient(p1, p2, q1))
        o2 == Sign(Orient(p1, p2, q2))
        o3 == Sign(Orient(q1, q2, p1))
        o4 == Sign(Orient(q1, q2, p2))
    IN  \/ o1 # o2 /\ o3 # o4
        \/ o1 = 0 /\ Within(p1, p2, q1)
        \/ o2 = 0 /\ Within(p1, p2, q2)
        \/ o3 = 0 /\ Within(q1, q2, p1)
        \/ o4 = 0 /\ Within(q1, q2, p2)

\* d1 x d2, the cross product of the two directions
DirCross(l1, l2) ==
    (end(l1).x - start(l1).x) * (end(l2).y - start(l2).y)
    - (end(l2).x - start(l2).x) * (end(l1).y - start(l1).y)

\* the four ends are on one line
Collinear(l1, l2) ==
    /\ Orient(start(l1), end(l1), start(l2)) = 0
    /\ Orient(start(l1), end(l1), end(l2)) = 0
    /\ Orient(start(l2), end(l2), start(l1)) = 0
    /\ Orient(start(l2), end(l2), end(l1)) = 0
    /\ Orient(start(l1), start(l2), end(l2)) = 0

\* both segments have positive length, lie on one line and share a piece of
\* positive length
OverlapAlong(l1, l2) ==
    LET b1 == boundingBox(l1)
        b2 == boundingBox(l2)
    IN  /\ start(l1) # end(l1) /\ start(l2) # end(l2)
        /\ Collinear(l1, l2)
        /\ IF start(l1).x # end(l1).x
           THEN Max2(left(b1), left(b2)) < Min2(right(b1), right(b2))
           ELSE Max2(top(b1), top(b2)) < Min2(bottom(b1), bottom(b2))

LLReturned == mode = "LL" /\ llret # NotYet

\* C1: two segments whose directions are not parallel give a list of exactly
\* one intersection when the closed segments have a common point, and the
\* empty list when they have none.
C1_OneIffMeet ==
    (LLReturned /\ DirCross(line1, line2) # 0) =>
        /\ llret.kind = "list"
        /\ Len(llret.items) = (IF SegmentsMeet(line1, line2) THEN 1 ELSE 0)

\* C2: two collinear segments that overlap along a piece of positive length
\* give Indeterminate, whatever their direction.
C2_OverlapIndeterminate ==
    (LLReturned /\ OverlapAlong(line1, line2)) => llret = Indeterminate

\* C3: intersectionsLL gives Indeterminate only when the two segments are
\* collinear.
C3_IndeterminateOnlyCollinear ==
    (LLReturned /\ llret = Indeterminate) => Collinear(line1, line2)

\* C13: a list returned by intersectionsLL holds at most one intersection,
\* also when the boxes only touch and the shared end points are reported.
C13_AtMostOne ==
    (LLReturned /\ llret.kind = "list") => Len(llret.items) <= 1

-----------------------------------------------------------------------------
(* Specification Spec: intersections(edge1, edge2, depth, epsilon,          *)
(* maxIteration), one action per turn of the engine's loop                  *)

\* a point of the engine's inputs, given in grid steps
GPt(x, y) == Pt(x * Grid, y * Grid)

\* the segments the input edges run along: two diagonals that cross, a
\* longer diagonal over the first, a vertical and a horizontal through the
\* crossing, a horizontal that starts at it, and a single point
Segments ==
    { <<GPt(0, 0), GPt(2, 2)>>, <<GPt(0, 2), GPt(2, 0)>>, <<GPt(0, 0), GPt(4, 4)>>,
      <<GPt(1, 0), GPt(1, 2)>>, <<GPt(0, 1), GPt(2, 1)>>, <<GPt(1, 1), GPt(3, 1)>>,
      <<GPt(1, 1), GPt(1, 1)>> }

\* each segment as a Line and as a QuadraticBezier with its control point at
\* the middle of the chord
EdgeInputs ==
    {Line(g[1], g[2]) : g \in Segments}
    \cup {QuadraticBezier(g[1], MidPt(g[1], g[2]), g[2]) : g \in Segments}

Depths == 0..MaxDepth
\* maxIteration: negative (no limit), zero, and two limits that runs reach
Budgets == {-1, 0, MaxBudget \div 2, MaxBudget}
Epsilons == {DefaultEpsilon, <<3, 8>>}

Init ==
    /\ mode = "intersections"
    /\ edge1 \in EdgeInputs /\ edge2 \in EdgeInputs
    /\ depth \in Depths /\ epsilon \in Epsilons /\ maxIteration \in Budgets
    /\ queue = <<>> /\ res = <<>> /\ exactRes = <<>> /\ itr = 0
    /\ ret = "idle" /\ last = NoNote /\ out = NotYet
    /\ LLIdle /\ MergeIdle /\ SymIdle /\ SelfIdle /\ FnIdle

\* the modes in which intersections runs; in mode "second" it is called
\* with the two edges in the other order
EngineModes == {"intersections", "first", "second"}
Cfg ==
    IF mode = "second" THEN Args(edge2, edge1, depth, epsilon, maxIteration)
    ELSE Args(edge1, edge2, depth, epsilon, maxIteration)
Cur == [queue |-> queue, res |-> res, exactRes |-> exactRes, itr |-> itr,
        ret |-> ret, last |-> last]

Others == <<mode, line1, line2, llret, mres, meps, mremoved, mout, symA, symB,
            self, fnArgs, fnRet>>
Inputs == <<edge1, edge2, depth, epsilon, maxIteration>>

Become(S) ==
    /\ queue' = S.queue /\ res' = S.res /\ exactRes' = S.exactRes
    /\ itr' = S.itr /\ ret' = S.ret /\ last' = S.last

\* both edges are lines: the call is intersectionsLL
EnterLL ==
    /\ mode \in EngineModes /\ ret = "idle"
    /\ degree(edge1) = 1 /\ degree(edge2) = 1
    /\ out' = intersectionsLL(Cfg.edge1, Cfg.edge2)
    /\ ret' = "lines"
    /\ UNCHANGED <<queue, res, exactRes, itr, last>>
    /\ UNCHANGED Inputs /\ UNCHANGED Others

\* otherwise the engine starts, seeded with the extreme points
EnterEngine ==
    /\ mode \in EngineModes /\ ret = "idle"
    /\ ~(degree(edge1) = 1 /\ degree(edge2) = 1)
    /\ \E S \in {Begin(Cfg, extremePoints(Cfg.edge1), extremePoints(Cfg.edge2))} :
           Become(S)
    /\ UNCHANGED out
    /\ UNCHANGED Inputs /\ UNCHANGED Others

\* one turn of the loop on the task at the head of the queue, whose case of
\* the switch has made did; a return of undefined is the return of
\* intersections
Process(did) ==
    /\ mode \in EngineModes /\ ret = "running"
    /\ queue # <<>>
    /\ \E S \in {act(Cfg, Cur, Head(queue), did)} :
           /\ Become(S)
           /\ out' = IF S.ret = "Indeterminate" THEN Indeterminate ELSE out
    /\ UNCHANGED Inputs /\ UNCHANGED Others

ProcessPP ==
    /\ queue # <<>> /\ Head(queue).type = "PP"
    /\ Process(casePP(Cfg, itr, Head(queue)))
ProcessPE ==
    /\ queue # <<>> /\ Head(queue).type = "PE"
    /\ Process(casePE(Cfg, itr, Head(queue)))
ProcessEP ==
    /\ queue # <<>> /\ Head(queue).type = "EP"
    /\ Process(caseEP(Cfg, itr, Head(queue)))
ProcessEE ==
    /\ queue # <<>> /\ Head(queue).type = "EE"
    /\ Process(caseEE(Cfg, itr, Head(queue)))

\* the queue is empty: the engine returns res, which is deduplicated and
\* mapped to points
Return ==
    /\ mode \in EngineModes /\ ret = "running"
    /\ queue = <<>>
    /\ ret' = "list"
    /\ \E kept \in {mergeNeighboringPoints(res, epsilon)} :
           out' = List(MapPoints(Cfg.edge1, Cfg.edge2, kept))
    /\ UNCHANGED <<queue, res, exactRes, itr, last>>
    /\ UNCHANGED Inputs /\ UNCHANGED Others

Next ==
    \/ EnterLL
    \/ EnterEngine
    \/ ProcessPP
    \/ ProcessPE
    \/ ProcessEP
    \/ ProcessEE
    \/ Return

Spec == Init /\ [][Next]_vars

\* A step of a call that has not returned: one more turn of the loop, or the
\* call entered or returned.  Every step of Next is one.
Advance ==
    /\ mode \in EngineModes /\ ret \in {"idle", "running"}
    /\ \/ itr' = itr + 1 /\ ret' = ret
       \/ itr' = itr /\ ret' \in {"running", "lines", "list", "Indeterminate"} \ {ret}

\* the call is sequential code: as long as it has not returned, it takes
\* its next step
FairSpec == Spec /\ WF_<<itr, ret>>(Advance)

-----------------------------------------------------------------------------
(* Specification SpecMerge: mergeNeighboringPoints on every list of at     *)
(* most MaxMerge results drawn from MergeResults                           *)

MergeTs == {Zero, <<1, 4>>, Half, One}
MergeErrs == {Zero, <<1, 4>>}
MergeEpsilons == {DefaultEpsilon, <<3, 8>>}
\* results along t2 = 0, and results at t1 = 0 with t2 at the far end
MergeResults ==
    {[t1 |-> a, t2 |-> Zero, err |-> e] : a \in MergeTs, e \in MergeErrs}
    \cup {[t1 |-> Zero, t2 |-> One, err |-> e] : e \in MergeErrs}
MergeInputs == UNION {[1..n -> MergeResults] : n \in 0..MaxMerge}

InitMerge ==
    /\ mode = "merge"
    /\ mres \in MergeInputs /\ meps \in MergeEpsilons
    /\ mremoved = <<>> /\ mout = NotYet
    /\ LLIdle /\ EngineIdle /\ SymIdle /\ SelfIdle /\ FnIdle

CallMerge ==
    /\ mode = "merge" /\ mout = NotYet
    /\ \E m \in {mergeRemoved(mres, meps)} :
           mremoved' = m /\ mout' = List(Keep(mres, m))
    /\ UNCHANGED <<mode, line1, line2, llret, mres, meps,
                   edge1, edge2, depth, epsilon, maxIteration,
                   queue, res, exactRes, itr, ret, last, out, symA, symB,
                   self, fnArgs, fnRet>>

NextMerge == CallMerge

SpecMerge == InitMerge /\ [][NextMerge]_vars

MergeReturned == mode = "merge" /\ mout # NotYet

\* closeness as the claims state it: both differences are below
\* max(sqrt(2) * (r.err + r'.err), epsilon)
BelowMax(d, s, eps) == FLt(FMul(d, d), FMul(FInt(2), FMul(s, s))) \/ FLt(d, eps)
ClaimClose(r1, r2, eps) ==
    /\ BelowMax(FAbs(FSub(r1.t1, r2.t1)), FAdd(r1.err, r2.err), eps)
    /\ BelowMax(FAbs(FSub(r1.t2, r2.t2)), FAdd(r1.err, r2.err), eps)

\* C8: the list returned by the deduplicator never holds two results that
\* are close.
C8_NoClosePairInOutput ==
    MergeReturned =>
        \A a \in 1..Len(mout.items) : \A b \in 1..Len(mout.items) :
            a # b => ~ClaimClose(mout.items[a], mout.items[b], meps)

\* C8 witness: an input with a close pair has been deduplicated to a list
\* that still holds two results.
C8_Witness ==
    /\ MergeReturned
    /\ Len(mout.items) >= 2
    /\ \E a \in 1..Len(mres) : \E b \in 1..Len(mres) :
           a # b /\ ClaimClose(mres[a], mres[b], meps)

\* the member of the pair {a, b} that the rule prefers: the lower err, and
\* the lower index when the errs are equal
Preferred(a, b) ==
    IF FLt(mres[a].err, mres[b].err) THEN a
    ELSE IF FLt(mres[b].err, mres[a].err) THEN b
    ELSE Min2(a, b)

\* index c beats index a: lower err, or equal err and lower index
Beats(c, a) ==
    \/ FLt(mres[c].err, mres[a].err)
    \/ mres[c].err = mres[a].err /\ c < a

ClosePairs ==
    {p \in (1..Len(mres)) \X (1..Len(mres)) :
        p[1] # p[2] /\ ClaimClose(mres[p[1]], mres[p[2]], meps)}

\* C9 as stated: of every close pair of the input, the preferred member is
\* retained.
C9_PreferredRetained ==
    MergeReturned => \A p \in ClosePairs : ~mremoved[Preferred(p[1], p[2])]

\* C9 as amended: of every close pair at most one member is retained, and
\* the preferred member is retained unless it is itself close to another
\* result that beats it.
C9_PreferredRetainedUnlessBeaten ==
    MergeReturned =>
        \A p \in ClosePairs :
            /\ mremoved[p[1]] \/ mremoved[p[2]]
            /\ LET w == Preferred(p[1], p[2]) IN
               mremoved[w] =>
                   \E c \in 1..Len(mres) :
                       c # w /\ Beats(c, w) /\ ClaimClose(mres[c], mres[w], meps)

\* C9 witness: a close pair whose preferred member was retained while the
\* other one was removed, in an input of three results.
C9_Witness ==
    /\ MergeReturned
    /\ Len(mres) = 3
    /\ \E p \in ClosePairs :
           /\ FLt(mres[p[1]].err, mres[p[2]].err)
           /\ ~mremoved[p[1]] /\ mremoved[p[2]]

\* C20: every result the deduplicator removes is close to a result of the
\* output whose err is not larger than its own.
C20_RemovedHasSurvivor ==
    MergeReturned =>
        \A k \in 1..Len(mres) :
            mremoved[k] =>
                \E c \in 1..Len(mres) :
                    /\ ~mremoved[c]
                    /\ FLe(mres[c].err, mres[k].err)
                    /\ ClaimClose(mres[c], mres[k], meps)

-----------------------------------------------------------------------------
(* Claims about the subdivision engine, under Spec and FairSpec *)

EngineRunning == mode = "intersections" /\ ret = "running"

\* the number of results with err = 0 in a list
ExactIn(rs) == Cardinality({k \in 1..Len(rs) : rs[k].err = Zero})

\* the tasks a step has put on the queue
Enqueued == SubSeq(queue', Len(queue), Len(queue'))

\* C4: a list returned by the engine holds at most degree(edge1) *
\* degree(edge2) results with err = 0, and the turn of the loop that leaves
\* more exact results than that returns Indeterminate at its end, with the
\* rest of the queue left as it is.
C4_BezoutBound ==
    /\ [](mode = "intersections" /\ ret = "list" =>
              ExactIn(res) <= maxIntersections(Cfg))
    /\ [][EngineRunning /\ ExactIn(res') > maxIntersections(Cfg) =>
              /\ ret' = "Indeterminate"
              /\ out' = Indeterminate
              /\ Tail(queue) = SubSeq(queue', 1, Len(queue) - 1)]_vars

\* C4 witness: the engine has returned Indeterminate on one exact result
\* too many while tasks were still queued.
C4_Witness ==
    /\ mode = "intersections" /\ ret = "Indeterminate"
    /\ ExactIn(res) = maxIntersections(Cfg) + 1
    /\ queue # <<>>
    /\ ~last.undef

\* C6: every run of the engine ends, with a list or with Indeterminate; no
\* PE, EP or EE task deeper than depth is ever on the queue, and a task at
\* depth >= depth enqueues only PP tasks or a PE/EP task of its own depth.
C6_Terminates ==
    /\ <>(ret \in {"lines", "list", "Indeterminate"})
    /\ [](\A k \in 1..Len(queue) :
              queue[k].type # "PP" => queue[k].i <= depth)
    /\ [][EngineRunning /\ queue # <<>> /\ Head(queue).i >= depth =>
              \A k \in 1..Len(Enqueued) :
                  \/ Enqueued[k].type = "PP"
                  \/ /\ Enqueued[k].type \in {"PE", "EP"}
                     /\ Enqueued[k].i = Head(queue).i]_vars

\* C6 witness: a run without an iteration budget has drained its queue
\* after processing a task at the depth limit that subdivision had reached.
C6_Witness ==
    /\ mode = "intersections" /\ ret = "list" /\ queue = <<>>
    /\ maxIteration = -1 /\ depth = MaxDepth
    /\ last.i = depth

\* the box test of a PE, EP or EE task, as the claim words it
BoxTest(task) ==
    CASE task.type = "PE" ->
             LET bb2 == boundingBox(task.pair[2])
             IN  hasOnEdge(bb2, task.pair[1]) \/ contains(bb2, task.pair[1])
      [] task.type = "EP" ->
             LET bb1 == boundingBox(task.pair[1])
             IN  hasOnEdge(bb1, task.pair[2]) \/ contains(bb1, task.pair[2])
      [] task.type = "EE" ->
             LET bb1 == boundingBox(task.pair[1])
                 bb2 == boundingBox(task.pair[2])
             IN  ~isPoint(bb1) /\ ~isPoint(bb2) /\ overlaps(bb1, bb2)
      [] OTHER -> FALSE

\* the box of the edge of a PE or EP task is a single point
PointBox(task) ==
    CASE task.type = "PE" -> isPoint(boundingBox(task.pair[2]))
      [] task.type = "EP" -> isPoint(boundingBox(task.pair[1]))
      [] OTHER -> FALSE

\* the engine is about to process a PE, EP or EE task whose box test passes,
\* with the iteration budget used up
OverBudget ==
    /\ EngineRunning /\ queue # <<>>
    /\ maxIteration >= 0 /\ itr >= maxIteration
    /\ Head(queue).type \in {"PE", "EP", "EE"}
    /\ BoxTest(Head(queue))

Centre(task) == [t1 |-> task.t1, t2 |-> task.t2, err |-> ErrAt(task.i)]

\* no root recovery, no chord test, no task of the next depth, no throw
NoFurtherWork ==
    /\ ~last'.recovery /\ ~last'.chord
    /\ \A k \in 1..Len(Enqueued) : Enqueued[k].i # Head(queue).i + 1
    /\ exactRes' = exactRes
    /\ ret' = "running" /\ itr' = itr + 1

\* C7 as stated: over budget, every such task records one inexact result at
\* its own centre.
C7_RecordsCentre ==
    [][OverBudget =>
          /\ res' = Append(res, Centre(Head(queue)))
          /\ FLt(Zero, ErrAt(Head(queue).i))
          /\ NoFurtherWork]_vars

\* C7 as amended: over budget, every such task whose box is not a single
\* point hands its centre, with err = max(2^-i, machine epsilon) > 0, to
\* pushResult, which records it unless an exact result already recorded is
\* approximately equal to the centre in both parameters; no root recovery
\* and no chord test runs, no task of depth i + 1 is enqueued, and the loop
\* goes on.
C7_RecordsCentreUnlessKnown ==
    [][OverBudget /\ ~PointBox(Head(queue)) =>
          /\ IF Known(Cur, Head(queue).t1, Head(queue).t2, epsilon)
             THEN res' = res
             ELSE res' = Append(res, Centre(Head(queue)))
          /\ FLt(Zero, ErrAt(Head(queue).i))
          /\ NoFurtherWork]_vars

\* C7 witness: the budget was used up, and the last task, an EE task of
\* depth 1 whose boxes overlap, has recorded its centre.
C7_Witness ==
    /\ EngineRunning
    /\ last.type = "EE" /\ last.i = 1 /\ last.boxpass /\ last.exhausted
    /\ maxIteration >= 0 /\ last.n >= maxIteration /\ last.i < depth
    /\ last.pushed = 1
    /\ res[Len(res)] = [t1 |-> last.t1, t2 |-> last.t2, err |-> Half]

\* the queue holds one PP task per pair of extreme points, one PE task per
\* extreme point of edge1, one EP task per extreme point of edge2 and one EE
\* task, all of depth 0
SeededWithExtremes ==
    LET eps1 == extremePoints(edge1)
        eps2 == extremePoints(edge2)
        n1 == Len(eps1)
        n2 == Len(eps2)
    IN  /\ Len(queue) = n1 * n2 + n1 + n2 + 1
        /\ {queue[k] : k \in 1..Len(queue)} =
               {Task(0, "PP", <<eps1[a].point, eps2[b].point>>, eps1[a].t, eps2[b].t) :
                    a \in 1..n1, b \in 1..n2}
               \cup {Task(0, "PE", <<eps1[a].point, edge2>>, eps1[a].t, Half) : a \in 1..n1}
               \cup {Task(0, "EP", <<edge1, eps2[b].point>>, Half, eps2[b].t) : b \in 1..n2}
               \cup {Task(0, "EE", <<edge1, edge2>>, Half, Half)}

\* C12: for two edges of degree 1 intersections returns what intersectionsLL
\* returns on them and the engine never runs, whatever depth, epsilon and
\* maxIteration are; for every other pair the engine starts from the extreme
\* points of the two edges, and a list it returns is deduplicated.
C12_Dispatch ==
    mode = "intersections" =>
        IF edge1.deg = 1 /\ edge2.deg = 1
        THEN /\ ret \in {"idle", "lines"}
             /\ queue = <<>> /\ res = <<>> /\ itr = 0
             /\ ret = "lines" => out = intersectionsLL(edge1, edge2)
        ELSE /\ ret # "lines"
             /\ (ret = "running" /\ itr = 0) => SeededWithExtremes
             /\ ret = "list" =>
                    out = List(MapPoints(edge1, edge2,
                                         mergeNeighboringPoints(res, epsilon)))

\* C12 witness: a pair that is not two lines has returned a list that is
\* shorter than the list of recorded results.
C12_Witness ==
    /\ mode = "intersections" /\ ret = "list"
    /\ ~(edge1.deg = 1 /\ edge2.deg = 1)
    /\ Len(out.items) >= 1 /\ Len(out.items) < Len(res)

-----------------------------------------------------------------------------
(* Specification SpecSym: intersections called on a pair of edges, and    *)
(* then on the same pair in the other order                               *)

InitSym ==
    /\ mode = "first"
    /\ edge1 \in EdgeInputs /\ edge2 \in EdgeInputs
    /\ depth \in Depths /\ epsilon \in Epsilons /\ maxIteration \in Budgets
    /\ queue = <<>> /\ res = <<>> /\ exactRes = <<>> /\ itr = 0
    /\ ret = "idle" /\ last = NoNote /\ out = NotYet
    /\ LLIdle /\ MergeIdle /\ SymIdle /\ SelfIdle /\ FnIdle

Returned == ret \in {"lines", "list", "Indeterminate"}

\* intersections(edge1, edge2) has returned: keep what it returned, and
\* call intersections(edge2, edge1)
SecondCall ==
    /\ mode = "first" /\ Returned
    /\ symA' = out
    /\ mode' = "second"
    /\ queue' = <<>> /\ res' = <<>> /\ exactRes' = <<>> /\ itr' = 0
    /\ ret' = "idle" /\ last' = NoNote /\ out' = NotYet
    /\ UNCHANGED Inputs
    /\ UNCHANGED <<line1, line2, llret, mres, meps, mremoved, mout, symB,
                   self, fnArgs, fnRet>>

\* intersections(edge2, edge1) has returned
Finish ==
    /\ mode = "second" /\ Returned
    /\ symB' = out
    /\ mode' = "done"
    /\ UNCHANGED <<queue, res, exactRes, itr, ret, last, out>>
    /\ UNCHANGED Inputs
    /\ UNCHANGED <<line1, line2, llret, mres, meps, mremoved, mout, symA,
                   self, fnArgs, fnRet>>

NextSym ==
    \/ Next
    \/ SecondCall
    \/ Finish

SpecSym == InitSym /\ [][NextSym]_vars

\* an intersection with its two parameters swapped
Swapped(r) == [t1 |-> r.t2, t2 |-> r.t1, point |-> r.point]

Count(rs, x) == Cardinality({k \in 1..Len(rs) : rs[k] = x})

\* a and b hold the same intersections the same number of times, once the
\* parameters of the members of b are swapped
SameUpToSwap(a, b) ==
    /\ Len(a) = Len(b)
    /\ \A k \in 1..Len(a) :
           Count(a, a[k]) = Count([j \in 1..Len(b) |-> Swapped(b[j])], a[k])

\* C10: the two calls are both Indeterminate, or both return a list and the
\* lists hold the same intersections up to the swap of t1 and t2.
C10_Symmetric ==
    mode = "done" =>
        \/ symA = Indeterminate /\ symB = Indeterminate
        \/ /\ symA # Indeterminate /\ symB # Indeterminate
           /\ SameUpToSwap(symA.items, symB.items)

-----------------------------------------------------------------------------
(* Specification SpecRect: Rectangle#overlaps on every pair of rectangles  *)
(* with corner, width and height in 0..MaxRect                             *)

\* a return value that is not a list
Value(v) == [kind |-> "value", items |-> v]

Rects ==
    {Rect(x, y, w, h) : x \in 0..MaxRect, y \in 0..MaxRect,
                        w \in 0..MaxRect, h \in 0..MaxRect}

\* the variables of the entry points of lib/edges.js, at rest
EdgesIdle == LLIdle /\ MergeIdle /\ EngineIdle /\ SymIdle /\ SelfIdle
EdgesVars == <<line1, line2, llret, mres, meps, mremoved, mout,
               edge1, edge2, depth, epsilon, maxIteration,
               queue, res, exactRes, itr, ret, last, out, symA, symB, self>>

InitRect ==
    /\ mode = "overlaps"
    /\ fnArgs \in Rects \X Rects
    /\ fnRet = NotYet
    /\ EdgesIdle

CallOverlaps ==
    /\ mode = "overlaps" /\ fnRet = NotYet
    /\ fnRet' = Value(overlaps(fnArgs[1], fnArgs[2]))
    /\ UNCHANGED <<mode, fnArgs>> /\ UNCHANGED EdgesVars

NextRect == CallOverlaps

SpecRect == InitRect /\ [][NextRect]_vars

\* the two rectangles, each without its edges, have a common point: on both
\* axes the two open intervals meet
OpenMeet(r, s) ==
    /\ Max2(left(r), left(s)) < Min2(right(r), right(s))
    /\ Max2(top(r), top(s)) < Min2(bottom(r), bottom(s))

\* C19: overlaps is true exactly when the two rectangles, taken as open
\* sets, have a common point, also for rectangles of zero width or height.
C19_OverlapsIffOpenMeet ==
    (mode = "overlaps" /\ fnRet # NotYet) =>
        (fnRet.items <=> OpenMeet(fnArgs[1], fnArgs[2]))

-----------------------------------------------------------------------------
(* Specification SpecSolve: the three solvers on the same coefficients     *)
(* c0..c3 in -MaxCoef..MaxCoef                                             *)

Coefs == (-MaxCoef)..MaxCoef

InitSolve ==
    /\ mode = "solve"
    /\ fnArgs \in {c \in Coefs \X Coefs \X Coefs \X Coefs :
                      IsSolvable(c[1], c[2], c[3], c[4])}
    /\ fnRet = NotYet
    /\ EdgesIdle

CallSolvers ==
    /\ mode = "solve" /\ fnRet = NotYet
    /\ fnRet' = Value([linear |-> solveLinearEq(fnArgs[1], fnArgs[2]),
                       quadratic |-> solveQuadraticEq(fnArgs[1], fnArgs[2], fnArgs[3]),
                       cubic |-> solveCubicEq(fnArgs[1], fnArgs[2], fnArgs[3], fnArgs[4])])
    /\ UNCHANGED <<mode, fnArgs>> /\ UNCHANGED EdgesVars

NextSolve == CallSolvers

SpecSolve == InitSolve /\ [][NextSolve]_vars

\* C15: each solver returns Indeterminate exactly when all the coefficients
\* it is given are zero and a list otherwise, and with a zero leading
\* coefficient it returns what the solver of the next lower degree returns
\* on the other coefficients.
C15_IndeterminateIffAllZero ==
    (mode = "solve" /\ fnRet # NotYet) =>
        LET c0 == fnArgs[1]
            c1 == fnArgs[2]
            c2 == fnArgs[3]
            c3 == fnArgs[4]
            r == fnRet.items
        IN  /\ r.linear = Indeterminate <=> (c0 = 0 /\ c1 = 0)
            /\ r.quadratic = Indeterminate <=> (c0 = 0 /\ c1 = 0 /\ c2 = 0)
            /\ r.cubic = Indeterminate <=> (c0 = 0 /\ c1 = 0 /\ c2 = 0 /\ c3 = 0)
            /\ r.linear # Indeterminate => r.linear.kind = "list"
            /\ r.quadratic # Indeterminate => r.quadratic.kind = "list"
            /\ r.cubic # Indeterminate => r.cubic.kind = "list"
            /\ c2 = 0 => r.quadratic = r.linear
            /\ c3 = 0 => r.cubic = r.quadratic

\* C15 witness: a cubic with c3 = 0 and c2 = 0 has been solved as the linear
\* equation it is, and a cubic with all coefficients zero is Indeterminate
\* (two states; this is the first).
C15_Witness ==
    /\ mode = "solve" /\ fnRet # NotYet
    /\ fnArgs[4] = 0 /\ fnArgs[3] = 0 /\ fnArgs[2] # 0 /\ fnArgs[1] # 0
    /\ fnRet.items.cubic = List(<<Frac(-fnArgs[1], fnArgs[2])>>)

-----------------------------------------------------------------------------
(* Specification SpecParams: paramsForPoint alone, on the edges of the     *)
(* three classes with corners in 0..MaxParam, degenerate ones included,    *)
(* on the points of the same grid and on two tolerances                    *)

ParamPoints == {Pt(x, y) : x, y \in 0..MaxParam}

ParamEdges ==
    {Line(s, e) : s, e \in ParamPoints}
    \cup {QuadraticBezier(s, c, e) : s, c, e \in ParamPoints}
    \cup {CubicBezier(g[1], g[2], g[3], g[4]) :
              g \in ParamPoints \X ParamPoints \X ParamPoints \X ParamPoints}

\* the coefficients paramsForPoint gives to the solver of one axis
AxisCoefs(e, ax, pc) ==
    IF e.deg = 1 THEN <<start(e)[ax] - pc, end(e)[ax] - start(e)[ax], 0, 0>>
    ELSE IF e.deg = 2
    THEN <<start(e)[ax] - pc, -2 * (start(e)[ax] - control(e)[ax]),
           start(e)[ax] - 2 * control(e)[ax] + end(e)[ax], 0>>
    ELSE <<start(e)[ax] - pc, -3 * (start(e)[ax] - control1(e)[ax]),
           3 * (start(e)[ax] - 2 * control1(e)[ax] + control2(e)[ax]),
           -start(e)[ax] + 3 * control1(e)[ax] - 3 * control2(e)[ax] + end(e)[ax]>>

\* the solver paramsForPoint calls for an edge of this class
AxisSolver(e, c) ==
    IF e.deg = 1 THEN solveLinearEq(c[1], c[2])
    ELSE IF e.deg = 2 THEN solveQuadraticEq(c[1], c[2], c[3])
    ELSE solveCubicEq(c[1], c[2], c[3], c[4])

HasExactRoots(e, p) ==
    \A c \in {AxisCoefs(e, "x", p.x), AxisCoefs(e, "y", p.y)} :
        IF c[4] # 0 THEN IsSolvable(c[1], c[2], 0, c[4]) /\ IsSolvable(c[1], c[2], c[3], c[4])
        ELSE IsSolvable(c[1], c[2], c[3], 0)

InitParams ==
    /\ mode = "params"
    /\ fnArgs \in {a \in ParamEdges \X ParamPoints \X {NumberEPSILON, <<3, 8>>} :
                      HasExactRoots(a[1], a[2])}
    /\ fnRet = NotYet
    /\ EdgesIdle

CallParamsForPoint ==
    /\ mode = "params" /\ fnRet = NotYet
    /\ fnRet' = paramsForPoint(fnArgs[1], fnArgs[2], fnArgs[3])
    /\ UNCHANGED <<mode, fnArgs>> /\ UNCHANGED EdgesVars

NextParams == CallParamsForPoint

SpecParams == InitParams /\ [][NextParams]_vars

\* the roots of one axis that lie in [0,1], in the solver's order
UnitRoots(roots) ==
    LET F[k \in 0..Len(roots)] ==
            IF k = 0 THEN <<>>
            ELSE IF FLe(Zero, roots[k]) /\ FLe(roots[k], One)
                 THEN Append(F[k - 1], roots[k]) ELSE F[k - 1]
    IN  F[Len(roots)]

\* the pairs of roots in [0,1] that are within the tolerance of each other
UnitPairs(txs, tys, eps) ==
    {q \in (1..Len(txs)) \X (1..Len(tys)) :
        /\ FLe(Zero, txs[q[1]]) /\ FLe(txs[q[1]], One)
        /\ FLe(Zero, tys[q[2]]) /\ FLe(tys[q[2]], One)
        /\ approx(txs[q[1]], tys[q[2]], eps)}

\* C16: paramsForPoint returns Indeterminate exactly when the solvers of
\* both axes do; when exactly one does it returns the other axis's roots in
\* [0,1], each snapped to an integer; when neither does it returns one value
\* per pair (tx, ty) of roots in [0,1] with approx(tx, ty, eps), the snapped
\* mean of the pair.
C16_ParamsFromAxes ==
    (mode = "params" /\ fnRet # NotYet) =>
        LET e == fnArgs[1]
            eps == fnArgs[3]
            txs == AxisSolver(e, AxisCoefs(e, "x", fnArgs[2].x))
            tys == AxisSolver(e, AxisCoefs(e, "y", fnArgs[2].y))
        IN  /\ fnRet = Indeterminate <=> (txs = Indeterminate /\ tys = Indeterminate)
            /\ (txs = Indeterminate /\ tys # Indeterminate) =>
                   /\ Len(fnRet.items) = Len(UnitRoots(tys.items))
                   /\ \A k \in 1..Len(fnRet.items) :
                          fnRet.items[k] = snapToInteger(UnitRoots(tys.items)[k], eps)
            /\ (tys = Indeterminate /\ txs # Indeterminate) =>
                   /\ Len(fnRet.items) = Len(UnitRoots(txs.items))
                   /\ \A k \in 1..Len(fnRet.items) :
                          fnRet.items[k] = snapToInteger(UnitRoots(txs.items)[k], eps)
            /\ (txs # Indeterminate /\ tys # Indeterminate) =>
                   LET pairs == UnitPairs(txs.items, tys.items, eps)
                       mean(q) == snapToInteger(
                           FMul(FAdd(txs.items[q[1]], tys.items[q[2]]), Half), eps)
                   IN  /\ Len(fnRet.items) = Cardinality(pairs)
                       /\ \A q \in pairs : \E k \in 1..Len(fnRet.items) :
                              fnRet.items[k] = mean(q)
                       /\ \A k \in 1..Len(fnRet.items) : \E q \in pairs :
                              fnRet.items[k] = mean(q)

\* a cubic with two roots in [0,1] on each axis, of which paramsForPoint
\* keeps the two pairs of equal roots and drops the two crossed pairs
C16_Witness ==
    /\ mode = "params" /\ fnRet # NotYet /\ fnRet # Indeterminate
    /\ fnArgs[1].deg = 3
    /\ fnArgs[3] = NumberEPSILON
    /\ Len(fnRet.items) = 2 /\ fnRet.items[1] # fnRet.items[2]

\* one axis Indeterminate and the other with a root outside [0,1] that is
\* left out
C16_WitnessOneAxis ==
    /\ mode = "params" /\ fnRet # NotYet /\ fnRet # Indeterminate
    /\ AxisSolver(fnArgs[1], AxisCoefs(fnArgs[1], "x", fnArgs[2].x)) = Indeterminate
    /\ Len(AxisSolver(fnArgs[1], AxisCoefs(fnArgs[1], "y", fnArgs[2].y)).items)
           > Len(fnRet.items)

-----------------------------------------------------------------------------
(* IEEE 754 double precision, bit for bit                                   *)
(*                                                                         *)
(* A JavaScript number is sign * m * 2^e with a natural number m of at     *)
(* most 53 bits; m is kept as a sequence of limbs, least significant       *)
(* first, since it does not fit the integers of the model checker.  Every  *)
(* operation computes the exact result and rounds it to the nearest number *)
(* of MantissaBits bits, ties to even, as the hardware does; with 0 for    *)
(* the number of bits it does not round, which is exact arithmetic.  The   *)
(* exponent is not limited: no input comes near an overflow or a subnormal *)
(* number.  Each operator takes the values of its arguments first (the     *)
(* one-element sets), so that no argument is computed twice.               *)

LimbBits == 15
LimbBase == 2 ^ LimbBits
MantissaBits == 53

RECURSIVE BigOf(_)
BigOf(n) == IF n = 0 THEN <<>> ELSE <<n % LimbBase>> \o BigOf(n \div LimbBase)

BigLimb(a, i) == IF i <= Len(a) THEN a[i] ELSE 0

\* a without the zero limbs at its high end
BigNorm(a0) ==
    LET F(a) ==
            IF \A i \in 1..Len(a) : a[i] = 0 THEN <<>>
            ELSE SubSeq(a, 1, CHOOSE i \in 1..Len(a) :
                                  a[i] # 0 /\ \A j \in (i + 1)..Len(a) : a[j] = 0)
    IN  CHOOSE r \in {F(a) : a \in {a0}} : TRUE

BigAdd(a0, b0) ==
    LET F(a, b) ==
            LET n == (IF Len(a) < Len(b) THEN Len(b) ELSE Len(a)) + 1
                c[i \in 0..n] ==
                    IF i = 0 THEN 0
                    ELSE (BigLimb(a, i) + BigLimb(b, i) + c[i - 1]) \div LimbBase
            IN  BigNorm([i \in 1..n |->
                            (BigLimb(a, i) + BigLimb(b, i) + c[i - 1]) % LimbBase])
    IN  CHOOSE r \in {F(a, b) : a \in {a0}, b \in {b0}} : TRUE

\* a - b for a >= b
BigSub(a0, b0) ==
    LET F(a, b) ==
            LET n == Len(a)
                c[i \in 0..n] ==
                    IF i = 0 THEN 0
                    ELSE IF a[i] - BigLimb(b, i) - c[i - 1] < 0 THEN 1 ELSE 0
            IN  BigNorm([i \in 1..n |->
                            (a[i] - BigLimb(b, i) - c[i - 1] + LimbBase) % LimbBase])
    IN  CHOOSE r \in {F(a, b) : a \in {a0}, b \in {b0}} : TRUE

BigLess(a0, b0) ==
    \E a \in {a0} : \E b \in {b0} :
        \/ Len(a) < Len(b)
        \/ /\ Len(a) = Len(b)
           /\ \E i \in 1..Len(a) :
                  a[i] < b[i] /\ \A j \in (i + 1)..Len(a) : a[j] = b[j]

\* a * k for a limb k
BigTimes(a0, k) ==
    LET F(a) ==
            LET n == Len(a) + 1
                c[i \in 0..n] ==
                    IF i = 0 THEN 0 ELSE (BigLimb(a, i) * k + c[i - 1]) \div LimbBase
            IN  BigNorm([i \in 1..n |-> (BigLimb(a, i) * k + c[i - 1]) % LimbBase])
    IN  CHOOSE r \in {F(a) : a \in {a0}} : TRUE

\* a * LimbBase^n
BigShift(a0, n) ==
    CHOOSE r \in {IF a = <<>> THEN <<>> ELSE [i \in 1..n |-> 0] \o a : a \in {a0}} : TRUE

RECURSIVE BigMul(_, _)
BigMul(a0, b0) ==
    LET F(a, b) ==
            IF b = <<>> THEN <<>>
            ELSE BigAdd(BigTimes(a, Head(b)), BigShift(BigMul(a, Tail(b)), 1))
    IN  CHOOSE r \in {F(a, b) : a \in {a0}, b \in {b0}} : TRUE

\* a * 2^k
BigShl(a, k) == BigShift(BigTimes(a, 2 ^ (k % LimbBits)), k \div LimbBits)

\* floor(a / 2^k)
BigShr(a0, k) ==
    LET F(a) ==
            LET d == k \div LimbBits
                s == 2 ^ (k % LimbBits)
            IN  IF d >= Len(a) THEN <<>>
                ELSE BigNorm([i \in 1..(Len(a) - d) |->
                                 (a[i + d] \div s)
                                 + (BigLimb(a, i + d + 1) % s) * (LimbBase \div s)])
    IN  CHOOSE r \in {F(a) : a \in {a0}} : TRUE

RECURSIVE Bits(_)
Bits(n) == IF n = 0 THEN 0 ELSE 1 + Bits(n \div 2)

\* the number of bits of a
BigBits(a0) ==
    CHOOSE r \in {IF a = <<>> THEN 0 ELSE LimbBits * (Len(a) - 1) + Bits(a[Len(a)]) :
                     a \in {a0}} : TRUE

RECURSIVE TrailingZeros(_)
TrailingZeros(n) == IF n % 2 = 1 THEN 0 ELSE 1 + TrailingZeros(n \div 2)

\* the number of zero bits at the low end of a # 0
BigTrailingZeros(a0) ==
    LET F(a) ==
            LET i == CHOOSE k \in 1..Len(a) : a[k] # 0 /\ \A j \in 1..(k - 1) : a[j] = 0
            IN  LimbBits * (i - 1) + TrailingZeros(a[i])
    IN  CHOOSE r \in {F(a) : a \in {a0}} : TRUE

\* << q + floor(r / b), r mod b >> for r < b * 2^(i + 1), by long division:
\* one bit of the quotient at a time, from bit i down to bit lo
RECURSIVE BigDivFrom(_, _, _, _, _)
BigDivFrom(r0, b0, i, lo, q0) ==
    LET F(r, b, q) ==
            IF i < lo THEN <<q, r>>
            ELSE IF BigLess(r, BigShl(b, i)) THEN BigDivFrom(r, b, i - 1, lo, q)
            ELSE BigDivFrom(BigSub(r, BigShl(b, i)), b, i - 1, lo,
                            BigAdd(q, BigShl(<<1>>, i)))
    IN  CHOOSE v \in {F(r, b, q) : r \in {r0}, b \in {b0}, q \in {q0}} : TRUE

\* the same down to bit 0, LimbBits bits at a time
RECURSIVE BigDivLimbs(_, _, _)
BigDivLimbs(qr0, b, i) ==
    IF i < 0 THEN qr0
    ELSE CHOOSE v \in {BigDivLimbs(qr, b, i - LimbBits) :
                          qr \in {BigDivFrom(qr0[2], b, i,
                                             IF i < LimbBits THEN 0 ELSE i - LimbBits + 1,
                                             qr0[1])}} : TRUE

\* << floor(a / b), a mod b >>
BigDivMod(a0, b0) ==
    CHOOSE v \in {BigDivLimbs(<< <<>>, a >>, b,
                              IF BigBits(a) > BigBits(b)
                              THEN BigBits(a) - BigBits(b) ELSE 0) :
                     a \in {a0}, b \in {b0}} : TRUE

DblZero == [s |-> 1, m |-> <<>>, e |-> 0]

\* the one representation of s * m * 2^e: m odd, or zero
Canon(s, m0, e) ==
    LET F(m) ==
            IF m = <<>> THEN DblZero
            ELSE [s |-> s, m |-> BigShr(m, BigTrailingZeros(m)),
                  e |-> e + BigTrailingZeros(m)]
    IN  CHOOSE r \in {F(m) : m \in {m0}} : TRUE

\* s * (q or q + 1) * 2^e, where rem of half + half was cut off below q:
\* to nearest, and to the even one of the two in a tie
RoundPick(s, q0, rem0, half0, e) ==
    LET F(q, rem, half) ==
            IF BigLess(half, rem) \/ (rem = half /\ q[1] % 2 = 1)
            THEN Canon(s, BigAdd(q, <<1>>), e)
            ELSE Canon(s, q, e)
    IN  CHOOSE r \in {F(q, rem, half) : q \in {q0}, rem \in {rem0}, half \in {half0}} : TRUE

RoundCut(s, m0, e, sh) ==
    CHOOSE r \in UNION {{RoundPick(s, q, BigSub(m, BigShl(q, sh)),
                                   BigShl(<<1>>, sh - 1), e + sh) :
                            q \in {BigShr(m, sh)}} : m \in {m0}} : TRUE

\* Every operation that rounds is reached through DblOp, a recursive
\* operator defined at the end of this part: it names, for each operation,
\* the definition that computes it.  (A definition is expanded where it is
\* used, except inside itself: through DblOp the operations are used inside
\* each other without being expanded inside each other.)
RECURSIVE DblOp(_, _)
RoundTo(p, s, m, e) == DblOp("RoundTo", <<p, s, m, e>>)
DblAdd(p, x, y) == DblOp("+", <<p, x, y>>)
DblMul(p, x, y) == DblOp("*", <<p, x, y>>)
DblDiv(p, x, y) == DblOp("/", <<p, x, y>>)
DblLt(x, y) == DblOp("<", <<x, y>>)
MathRound(x) == DblOp("Math.round", <<x>>)

\* s * m * 2^e rounded to p bits
Rounded(p, s, m0, e) ==
    LET F(m, n) == IF p = 0 \/ n <= p THEN Canon(s, m, e) ELSE RoundCut(s, m, e, n - p)
    IN  CHOOSE r \in UNION {{F(m, n) : n \in {BigBits(m)}} : m \in {m0}} : TRUE

DblInt(n) == Canon(IF n < 0 THEN -1 ELSE 1, BigOf(IF n < 0 THEN -n ELSE n), 0)

DblNeg(x0) ==
    CHOOSE r \in {IF x.m = <<>> THEN x ELSE [x EXCEPT !.s = -x.s] : x \in {x0}} : TRUE
DblAbs(x0) == CHOOSE r \in {[x EXCEPT !.s = 1] : x \in {x0}} : TRUE

\* sx * mx * 2^e + sy * my * 2^e
SignedSum(p, sx, mx0, sy, my0, e) ==
    LET F(mx, my) ==
            IF sx = sy THEN RoundTo(p, sx, BigAdd(mx, my), e)
            ELSE IF BigLess(mx, my) THEN RoundTo(p, sy, BigSub(my, mx), e)
            ELSE RoundTo(p, sx, BigSub(mx, my), e)
    IN  CHOOSE r \in {F(mx, my) : mx \in {mx0}, my \in {my0}} : TRUE

Sum(p, x0, y0) ==
    LET F(x, y) ==
            LET e == IF x.e < y.e THEN x.e ELSE y.e
            IN  SignedSum(p, x.s, BigShl(x.m, x.e - e), y.s, BigShl(y.m, y.e - e), e)
    IN  CHOOSE r \in {F(x, y) : x \in {x0}, y \in {y0}} : TRUE

DblSub(p, x, y) == DblAdd(p, x, DblNeg(y))

Product(p, x0, y0) ==
    CHOOSE r \in {RoundTo(p, x.s * y.s, BigMul(x.m, y.m), x.e + y.e) :
                     x \in {x0}, y \in {y0}} : TRUE

\* x / y for y # 0: p + 2 bits of the quotient or more, and one more bit
\* that says whether there is a remainder, decide the rounding
Quotient(p, x0, y0) ==
    LET F(x, y) ==
            LET need == p + 2 + BigBits(y.m) - BigBits(x.m)
                k == IF need > 0 THEN need ELSE 0
            IN  CHOOSE r \in {RoundTo(p, x.s * y.s,
                                      IF qr[2] = <<>> THEN BigShl(qr[1], 1)
                                      ELSE BigAdd(BigShl(qr[1], 1), <<1>>),
                                      x.e - y.e - k - 1) :
                                 qr \in {BigDivMod(BigShl(x.m, k), y.m)}} : TRUE
    IN  CHOOSE r \in {IF x.m = <<>> THEN DblZero ELSE F(x, y) : x \in {x0}, y \in {y0}} : TRUE

Less(x, y) == \E d \in {DblSub(0, x, y)} : d.m # <<>> /\ d.s = -1
DblLe(x, y) == ~DblLt(y, x)
DblMax(x0, y0) ==
    CHOOSE r \in {IF DblLt(x, y) THEN y ELSE x : x \in {x0}, y \in {y0}} : TRUE

\* Math.round: floor(x + 0.5)
NearestInteger(x) ==
    LET F(y, q) ==
            IF y.s = 1 \/ y.e >= 0 THEN Canon(y.s, q, 0)
            ELSE Canon(-1, BigAdd(q, <<1>>), 0)
    IN  CHOOSE r \in UNION {{F(y, q) : q \in {IF y.e >= 0 THEN BigShl(y.m, y.e)
                                              ELSE BigShr(y.m, -y.e)}} :
                               y \in {DblAdd(0, x, [s |-> 1, m |-> <<1>>, e |-> -1])}} : TRUE

-----------------------------------------------------------------------------
(* lib/utils.js, lib/point.js and Line of lib/edges.js on doubles           *)

Double(num, den) == DblDiv(MantissaBits, DblInt(num), DblInt(den))
DblOne == DblInt(1)

\* Number.EPSILON, 2^-52
DblEPSILON == [s |-> 1, m |-> <<1>>, e |-> 1 - MantissaBits]

DblApprox(x0, y0, eps0) ==
    \E x \in {x0} : \E y \in {y0} : \E eps \in {eps0} :
        \/ x = y
        \/ DblLt(DblAbs(DblSub(MantissaBits, x, y)),
                 DblMul(MantissaBits, DblMax(DblOne, DblMax(DblAbs(x), DblAbs(y))), eps))

DblSnapToInteger(x0, eps0) ==
    CHOOSE r \in {IF DblApprox(x, MathRound(x), eps) THEN MathRound(x) ELSE x :
                     x \in {x0}, eps \in {eps0}} : TRUE

DblSolveLinearEq(c00, c10) ==
    CHOOSE r \in {IF c1 = DblZero
                  THEN IF c0 = DblZero THEN Indeterminate ELSE List(<<>>)
                  ELSE List(<< DblDiv(MantissaBits, DblNeg(c0), c1) >>) :
                     c0 \in {c00}, c1 \in {c10}} : TRUE

\* Point#scale and Point#add, with p bits
DblScale(p, q0, k0) ==
    CHOOSE r \in {[x |-> DblMul(p, q.x, k), y |-> DblMul(p, q.y, k)] :
                     q \in {q0}, k \in {k0}} : TRUE
DblPlus(p, a0, b0) ==
    CHOOSE r \in {[x |-> DblAdd(p, a.x, b.x), y |-> DblAdd(p, a.y, b.y)] :
                     a \in {a0}, b \in {b0}} : TRUE

\* a.scale(1 - t).add(b.scale(t))
DblLerp(p, a, b, t0) ==
    CHOOSE r \in {DblPlus(p, DblScale(p, a, DblSub(p, DblOne, t)), DblScale(p, b, t)) :
                     t \in {t0}} : TRUE

DblPt(q) == [x |-> DblInt(q.x), y |-> DblInt(q.y)]

\* Line#pointAt
DblLinePointAt(l, t) == DblLerp(MantissaBits, DblPt(start(l)), DblPt(end(l)), t)

DblInUnit(t0) == \E t \in {t0} : DblLe(DblZero, t) /\ DblLe(t, DblOne)

\* the rest of Line#paramsForPoint, given what the two solvers returned:
\* each of them returns at most one root
DblPairUnit(txs, tys, eps) ==
    LET unit(rs) == IF rs.items # <<>> /\ DblInUnit(rs.items[1])
                    THEN << DblSnapToInteger(rs.items[1], eps) >> ELSE <<>>
    IN  IF txs = Indeterminate /\ tys = Indeterminate THEN Indeterminate
        ELSE IF txs = Indeterminate THEN List(unit(tys))
        ELSE IF tys = Indeterminate THEN List(unit(txs))
        ELSE IF txs.items = <<>> \/ tys.items = <<>> THEN List(<<>>)
        ELSE IF /\ DblInUnit(txs.items[1]) /\ DblInUnit(tys.items[1])
                /\ DblApprox(txs.items[1], tys.items[1], eps)
             THEN List(<< DblSnapToInteger(
                              DblDiv(MantissaBits,
                                     DblAdd(MantissaBits, txs.items[1], tys.items[1]),
                                     DblInt(2)), eps) >>)
             ELSE List(<<>>)

\* Line#paramsForPoint
DblLineParamsForPoint(l, p0, eps0) ==
    LET s == DblPt(start(l))
        e == DblPt(end(l))
    IN  CHOOSE r \in UNION {{DblPairUnit(txs, tys, eps) :
                txs \in {DblSolveLinearEq(DblSub(MantissaBits, s.x, p.x),
                                          DblSub(MantissaBits, e.x, s.x))},
                tys \in {DblSolveLinearEq(DblSub(MantissaBits, s.y, p.y),
                                          DblSub(MantissaBits, e.y, s.y))}} :
                p \in {p0}, eps \in {eps0}} : TRUE

-----------------------------------------------------------------------------
(* Specification SpecRound: line.paramsForPoint(line.pointAt(t)) on        *)
(* doubles, for the lines with distinct corners in 0..MaxRound and t a     *)
(* multiple of 1 / RoundSteps                                              *)

RoundLines ==
    {Line(Pt(g[1], g[2]), Pt(g[3], g[4])) :
        g \in {h \in (0..MaxRound) \X (0..MaxRound) \X (0..MaxRound) \X (0..MaxRound) :
                  h[1] # h[3] \/ h[2] # h[4]}}

InitRound ==
    /\ mode = "round"
    /\ fnArgs \in RoundLines \X (0..RoundSteps)
    /\ fnRet = NotYet
    /\ EdgesIdle

\* const p = line.pointAt(k / RoundSteps); line.paramsForPoint(p)
RoundTrip(l, k) ==
    CHOOSE r \in {[point |-> p, params |-> DblLineParamsForPoint(l, p, DblEPSILON)] :
                     p \in {DblLinePointAt(l, Double(k, RoundSteps))}} : TRUE

CallRoundTrip ==
    /\ mode = "round" /\ fnRet = NotYet
    /\ fnRet' = Value(DblOp("RoundTrip", <<fnArgs[1], fnArgs[2]>>))
    /\ UNCHANGED <<mode, fnArgs>> /\ UNCHANGED EdgesVars

NextRound == CallRoundTrip

SpecRound == InitRound /\ [][NextRound]_vars

\* C17: for an edge that is not a single point and t in [0,1],
\* paramsForPoint(pointAt(t)) is a list that holds a value approximately
\* equal to t, with the tolerance 1e-6.
C17_RoundTrip ==
    (mode = "round" /\ fnRet # NotYet) =>
        /\ fnRet.items.params # Indeterminate
        /\ \E k \in 1..Len(fnRet.items.params.items) :
               DblApprox(fnRet.items.params.items[k],
                         Double(fnArgs[2], RoundSteps), Double(1, 1000000))

-----------------------------------------------------------------------------
(* pointAt and splitAt of the three classes, on numbers of p bits: doubles *)
(* with p = MantissaBits, exact arithmetic with p = 0.  The corners of     *)
(* these edges are points with double coordinates.                         *)

DblRound(p, x0) == CHOOSE r \in {RoundTo(p, x.s, x.m, x.e) : x \in {x0}} : TRUE

\* x ** 2 and x ** 3: the power, rounded once
DblSquare(p, x0) == CHOOSE r \in {DblRound(p, DblMul(0, x, x)) : x \in {x0}} : TRUE
DblCube(p, x0) ==
    CHOOSE r \in {DblRound(p, DblMul(0, DblMul(0, x, x), x)) : x \in {x0}} : TRUE

\* a.scale((1 - t) ** 2).add(b.scale(2 * (1 - t) * t)).add(c.scale(t ** 2))
DblLerp2(p, a, b, c, t0) ==
    CHOOSE r \in UNION {{
        DblPlus(p, DblPlus(p, DblScale(p, a, DblSquare(p, u)),
                              DblScale(p, b, DblMul(p, DblMul(p, DblInt(2), u), t))),
                   DblScale(p, c, DblSquare(p, t))) :
            u \in {DblSub(p, DblOne, t)}} : t \in {t0}} : TRUE

\* a.scale((1 - t) ** 3).add(b.scale(3 * (1 - t) ** 2 * t))
\*     .add(c.scale(3 * (1 - t) * t ** 2)).add(d.scale(t ** 3))
DblLerp3(p, a, b, c, d, t0) ==
    CHOOSE r \in UNION {{
        DblPlus(p, DblPlus(p, DblPlus(p,
            DblScale(p, a, DblCube(p, u)),
            DblScale(p, b, DblMul(p, DblMul(p, DblInt(3), DblSquare(p, u)), t))),
            DblScale(p, c, DblMul(p, DblMul(p, DblInt(3), u), DblSquare(p, t)))),
            DblScale(p, d, DblCube(p, t))) :
            u \in {DblSub(p, DblOne, t)}} : t \in {t0}} : TRUE

DblPointAt(p, e0, t0) ==
    CHOOSE r \in {IF e.deg = 1 THEN DblLerp(p, e.pts[1], e.pts[2], t)
                  ELSE IF e.deg = 2 THEN DblLerp2(p, e.pts[1], e.pts[2], e.pts[3], t)
                  ELSE DblLerp3(p, e.pts[1], e.pts[2], e.pts[3], e.pts[4], t) :
                     e \in {e0}, t \in {t0}} : TRUE

\* a splitAt that gives the first piece the control points of the second
DblSplitAtSwapped(p, e0, t0) ==
    CHOOSE r \in UNION {{
        IF e.deg = 1
        THEN << Line(e.pts[1], e.pts[2]), Line(middle, e.pts[2]) >>
        ELSE IF e.deg = 2
        THEN << QuadraticBezier(e.pts[1], DblLerp(p, e.pts[2], e.pts[3], t), middle),
                QuadraticBezier(middle, DblLerp(p, e.pts[2], e.pts[3], t), e.pts[3]) >>
        ELSE << CubicBezier(e.pts[1], DblLerp(p, e.pts[3], e.pts[4], t),
                            DblLerp2(p, e.pts[1], e.pts[2], e.pts[3], t), middle),
                CubicBezier(middle, DblLerp2(p, e.pts[2], e.pts[3], e.pts[4], t),
                            DblLerp(p, e.pts[3], e.pts[4], t), e.pts[4]) >> :
            middle \in {DblPointAt(p, e, t)}} : e \in {e0}, t \in {t0}} : TRUE

DblSplitAt(p, e0, t0) ==
    CHOOSE r \in UNION {{
        IF e.deg = 1
        THEN << Line(e.pts[1], middle), Line(middle, e.pts[2]) >>
        ELSE IF e.deg = 2
        THEN << QuadraticBezier(e.pts[1], DblLerp(p, e.pts[1], e.pts[2], t), middle),
                QuadraticBezier(middle, DblLerp(p, e.pts[2], e.pts[3], t), e.pts[3]) >>
        ELSE << CubicBezier(e.pts[1], DblLerp(p, e.pts[1], e.pts[2], t),
                            DblLerp2(p, e.pts[1], e.pts[2], e.pts[3], t), middle),
                CubicBezier(middle, DblLerp2(p, e.pts[2], e.pts[3], e.pts[4], t),
                            DblLerp(p, e.pts[3], e.pts[4], t), e.pts[4]) >> :
            middle \in {DblPointAt(p, e, t)}} : e \in {e0}, t \in {t0}} : TRUE

-----------------------------------------------------------------------------
(* Specification SpecSplit: the check of the splitAt tests, in exact       *)
(* arithmetic and on doubles, for the three edges of the tests scaled by   *)
(* 10^0, 10^8, .., 10^(8 MaxSplit) and for t and u in 0/5, 1/5, ..,        *)
(* MaxStep/5                                                               *)

RECURSIVE SplitScale(_)
SplitScale(k) ==
    IF k = 0 THEN DblOne ELSE DblMul(0, DblInt(100000000), SplitScale(k - 1))

\* the number literal k / 5
Fifth(k) == Double(k, 5)

\* the edges of the splitAt tests of Line, QuadraticBezier and CubicBezier
SplitShapes ==
    { Line(Pt(1, 1), Pt(2, 2)),
      QuadraticBezier(Pt(1, 1), Pt(1, 2), Pt(2, 2)),
      CubicBezier(Pt(1, 1), Pt(1, 2), Pt(2, 2), Pt(2, 1)) }

Scaled(e, c) == [deg |-> e.deg,
                 pts |-> [k \in 1..Len(e.pts) |-> DblScale(0, DblPt(e.pts[k]), c)]]

InitSplit ==
    /\ mode = "split"
    /\ fnArgs \in {DblOp("Scaled", <<e, k>>) : e \in SplitShapes, k \in 0..MaxSplit}
                  \X (0..MaxStep) \X (0..MaxStep)
    /\ fnRet = NotYet
    /\ EdgesIdle

\* the four points the test compares, computed with p bits:
\* splits[0].pointAt(u), curve.pointAt(t * u), splits[1].pointAt(u) and
\* curve.pointAt(t + (1 - t) * u)
SplitCheck(p, e, t, u) ==
    CHOOSE r \in {[a |-> DblPointAt(p, splits[1], u),
                   ea |-> DblPointAt(p, e, DblMul(p, t, u)),
                   b |-> DblPointAt(p, splits[2], u),
                   eb |-> DblPointAt(p, e, DblAdd(p, t, DblMul(p, DblSub(p, DblOne, t), u)))] :
                     splits \in {DblSplitAt(p, e, t)}} : TRUE

\* the check in exact arithmetic and on doubles, for t = j / 5 and u = k / 5
SplitChecks(e, j, k) ==
    CHOOSE r \in {[exact |-> SplitCheck(0, e, t, u),
                   double |-> SplitCheck(MantissaBits, e, t, u)] :
                     t \in {Fifth(j)}, u \in {Fifth(k)}} : TRUE

\* the larger of |q1.x - q2.x| and |q1.y - q2.y|, as the test computes them
Apart(q1, q2) ==
    DblMax(DblAbs(DblSub(MantissaBits, q1.x, q2.x)),
           DblAbs(DblSub(MantissaBits, q1.y, q2.y)))

\* the largest |coordinate| of the corners of e
Extent(e) ==
    CHOOSE m \in {DblAbs(e.pts[k][ax]) : k \in 1..Len(e.pts), ax \in {"x", "y"}} :
        \A k \in 1..Len(e.pts) : DblLe(DblAbs(e.pts[k].x), m) /\ DblLe(DblAbs(e.pts[k].y), m)

\* 4 * Number.EPSILON * max(1, the largest |coordinate| of the corners of e)
RelativeTolerance(e) ==
    DblMul(0, DblMul(0, DblInt(4), DblEPSILON), DblMax(DblOne, Extent(e)))

\* The (t, ratio) records of selfIntersections on doubles, for a
\* QuadraticBezier whose corners have integer coordinates.

\* num / den when 0 < num / den && num / den < 1
DblInterior(num, den) ==
    IF den = 0 THEN <<>>
    ELSE CHOOSE r \in {IF DblLt(DblZero, t) /\ DblLt(t, DblOne) THEN <<t>> ELSE <<>> :
                          t \in {Double(num, den)}} : TRUE

\* the members of the Set ets of QuadraticBezier#extremePoints after 0 and 1
DblExtremeTs(e) ==
    AddAll(DblInterior(start(e).x - control(e).x,
                       start(e).x - 2 * control(e).x + end(e).x),
           DblInterior(start(e).y - control(e).y,
                       start(e).y - 2 * control(e).y + end(e).y))

DblExtremeSet(e) ==
    CHOOSE S \in {{ts[k] : k \in 1..Len(ts)} : ts \in {DblExtremeTs(e)}} : TRUE

\* .sort((ep1, ep2) => ep1.t - ep2.t) on a set of doubles
RECURSIVE DblAscending(_)
DblAscending(S) ==
    IF S = {} THEN <<>>
    ELSE CHOOSE r \in {<<x>> \o DblAscending(S \ {x}) :
                          x \in {CHOOSE y \in S : \A z \in S : DblLe(y, z)}} : TRUE

\* the records pushed to splits from the piece that starts at t: the ratio
\* is ep.t - t, and 1 - t for the last piece
RECURSIVE DblRecordsFrom(_, _)
DblRecordsFrom(t0, ts0) ==
    CHOOSE r \in
        { IF ts = <<>> THEN << [t |-> t, ratio |-> DblSub(MantissaBits, DblOne, t)] >>
          ELSE << [t |-> t, ratio |-> DblSub(MantissaBits, Head(ts), t)] >>
               \o DblRecordsFrom(Head(ts), Tail(ts)) :
            t \in {t0}, ts \in {ts0} } : TRUE

\* s.t + s.ratio * u
DblGlobal(s0, u0) ==
    CHOOSE r \in {DblAdd(MantissaBits, s.t, DblMul(MantissaBits, s.ratio, u)) :
                     s \in {s0}, u \in {u0}} : TRUE

\* the sum of the ratios of the records, from the first on
RECURSIVE DblTotal(_)
DblTotal(ss0) ==
    CHOOSE r \in
        { IF Len(ss) = 1 THEN ss[1].ratio
          ELSE DblAdd(MantissaBits, DblTotal(SubSeq(ss, 1, Len(ss) - 1)), ss[Len(ss)].ratio) :
            ss \in {ss0} } : TRUE

\* the local parameters at which results are mapped back below
LocalParams == {DblZero, Double(1, 2), DblOne}

\* the results of the pair of pieces i < j at the local parameters, mapped
\* back.  (No result of a run on two adjacent pieces stands at the end of
\* the first and the start of the second: see C24.)
MappedPairs(ss, i, j) ==
    { [i |-> i, j |-> j, t1 |-> DblGlobal(ss[i], uu[1]), t2 |-> DblGlobal(ss[j], uu[2])] :
        uu \in {pair \in LocalParams \X LocalParams :
                   ~(j = i + 1 /\ pair = <<DblOne, DblZero>>)} }

\* The records of an edge, the global parameter s.t + s.ratio at which each
\* piece ends, the sum of the ratios, and the mapped results of every pair
\* of pieces.
PieceRecords(e) ==
    CHOOSE r \in
        { [splits |-> ss,
           ends |-> [k \in 1..Len(ss) |-> DblGlobal(ss[k], DblOne)],
           total |-> DblTotal(ss),
           mapped |-> UNION { MappedPairs(ss, ij[1], ij[2]) :
                                ij \in {p \in (1..Len(ss)) \X (1..Len(ss)) : p[1] < p[2]} }] :
            ss \in {DblRecordsFrom(DblZero, DblAscending(DblExtremeSet(e)))} } : TRUE

\* the operations on doubles and the computations of the specifications
\* SpecRound, SpecSplit and SpecPieces
DblOp(f, a0) ==
    CHOOSE r \in
        { CASE f = "RoundTo" -> Rounded(a[1], a[2], a[3], a[4])
            [] f = "+" -> Sum(a[1], a[2], a[3])
            [] f = "*" -> Product(a[1], a[2], a[3])
            [] f = "/" -> Quotient(a[1], a[2], a[3])
            [] f = "<" -> Less(a[1], a[2])
            [] f = "Math.round" -> NearestInteger(a[1])
            [] f = "RoundTrip" -> RoundTrip(a[1], a[2])
            [] f = "Scaled" -> Scaled(a[1], SplitScale(a[2]))
            [] f = "SplitChecks" -> SplitChecks(a[1], a[2], a[3])
            [] f = "PieceRecords" -> PieceRecords(a[1]) :
            a \in {a0} } : TRUE

CallSplitAt ==
    /\ mode = "split" /\ fnRet = NotYet
    /\ fnRet' = Value(DblOp("SplitChecks", <<fnArgs[1], fnArgs[2], fnArgs[3]>>))
    /\ UNCHANGED <<mode, fnArgs>> /\ UNCHANGED EdgesVars

NextSplit == CallSplitAt

SpecSplit == InitSplit /\ [][NextSplit]_vars

SplitReturned == mode = "split" /\ fnRet # NotYet

-----------------------------------------------------------------------------
(* lib/edges.js: selfIntersections *)

\* the members of a set of parameters in ascending order:
\* eps.sort((ep1, ep2) => ep1.t - ep2.t) without its first and last member
RECURSIVE Ascending(_)
Ascending(S) ==
    IF S = {} THEN <<>>
    ELSE <<FLeast(S)>> \o Ascending(S \ {FLeast(S)})

\* the loop that cuts the edge at its interior extreme points, from the
\* piece `current` that starts at parameter t
RECURSIVE SplitsFrom(_, _, _)
SplitsFrom(current, t, ts) ==
    IF ts = <<>> THEN << [edge |-> current, t |-> t, ratio |-> FSub(One, t)] >>
    ELSE LET pieces == splitAt(current, FDiv(FSub(Head(ts), t), FSub(One, t)))
         IN  << [edge |-> pieces[1], t |-> t, ratio |-> FSub(Head(ts), t)] >>
             \o SplitsFrom(pieces[2], Head(ts), Tail(ts))

selfSplits(e) ==
    CHOOSE sp \in
        { SplitsFrom(e, Zero, Ascending({ts[k] : k \in 1..Len(ts)})) :
            ts \in {extremeTs(e)} } : TRUE

\* for (let j = i + 1; ...), and the loop started at the piece itself
FirstPartnerSame(i) == i
FirstPartner(i) == i + 1

\* the pair of pieces the two loops reach next when the outer one stands at
\* i and the inner one is about to start; i = n + 1 when the loops are over
RECURSIVE PairFrom(_, _)
PairFrom(i, n) ==
    IF i > n THEN [i |-> n + 1, j |-> 0]
    ELSE IF FirstPartner(i) <= n THEN [i |-> i, j |-> FirstPartner(i)]
    ELSE PairFrom(i + 1, n)

\* the pair after (i, j)
PairAfter(i, j, n) == IF j + 1 <= n THEN [i |-> i, j |-> j + 1] ELSE PairFrom(i + 1, n)

\* sp1 and sp2 of the pair of pieces (i, j), counted from 1; and sp1 with
\* no start point pushed for the first piece, and with the end of the piece
\* pushed for every pair
selfSp1NoStart(i, j, s1) ==
    IF i + 1 # j THEN <<[t |-> One, point |-> end(s1.edge)]>> ELSE <<>>

selfSp1BothEnds(i, j, s1) ==
    (IF i = 1 THEN <<[t |-> Zero, point |-> start(s1.edge)]>> ELSE <<>>)
    \o <<[t |-> One, point |-> end(s1.edge)]>>

selfSp1(i, j, s1) ==
    (IF i = 1 THEN <<[t |-> Zero, point |-> start(s1.edge)]>> ELSE <<>>)
    \o (IF i + 1 # j THEN <<[t |-> One, point |-> end(s1.edge)]>> ELSE <<>>)
selfSp2(s2) == <<[t |-> One, point |-> end(s2.edge)]>>

\* the PP tasks of a queue, each as the pair of parameters of the whole
\* edge at which its two points stand
SeededPP(s1, s2, q) ==
    LET pp == SelectSeq(q, LAMBDA task : task.type = "PP")
    IN  [k \in 1..Len(pp) |->
            <<FAdd(s1.t, FMul(s1.ratio, pp[k].t1)),
              FAdd(s2.t, FMul(s2.ratio, pp[k].t2))>>]

\* t1 = s1.t + s1.ratio * r.t1, t2 = s2.t + s2.ratio * r.t2; and the same
\* with the two pieces taken for each other
MapBackSwapped(s1, s2, rs) ==
    [k \in 1..Len(rs) |->
        Result(FAdd(s2.t, FMul(s2.ratio, rs[k].t1)),
               FAdd(s1.t, FMul(s1.ratio, rs[k].t2)), rs[k].err)]

MapBack(s1, s2, rs) ==
    [k \in 1..Len(rs) |->
        Result(FAdd(s1.t, FMul(s1.ratio, rs[k].t1)),
               FAdd(s2.t, FMul(s2.ratio, rs[k].t2)), rs[k].err)]

-----------------------------------------------------------------------------
(* Specification SpecSelf: selfIntersections(edge, depth, epsilon,          *)
(* maxIteration), one action per step of its loops and per turn of the      *)
(* engine's loop                                                            *)

\* a point of the inputs, in steps that keep every split point an integer
\* point: the cuts at the extreme points divide by 16 and each halving by 4
SelfGrid == 4 ^ (MaxDepth + 2)
SPt(x, y) == Pt(x * SelfGrid, y * SelfGrid)

\* edges of one piece: a segment, a single point, a quadratic along a
\* segment, a quarter turn, a cubic along a segment and a monotone S
OnePiece ==
    { Line(SPt(0, 0), SPt(2, 2)), Line(SPt(1, 1), SPt(1, 1)),
      QuadraticBezier(SPt(0, 0), SPt(1, 1), SPt(2, 2)),
      QuadraticBezier(SPt(0, 0), SPt(1, 0), SPt(1, 1)),
      CubicBezier(SPt(0, 0), SPt(1, 1), SPt(2, 2), SPt(3, 3)),
      CubicBezier(SPt(0, 0), SPt(1, 0), SPt(2, 1), SPt(3, 1)) }

\* parabolas that turn back in y or in x, and quadratics folded onto a
\* segment, whose two pieces lie on each other
TwoPieces ==
    { QuadraticBezier(SPt(0, 0), SPt(1, 2), SPt(2, 0)),
      QuadraticBezier(SPt(0, 0), SPt(2, 1), SPt(0, 2)),
      QuadraticBezier(SPt(0, 0), SPt(1, 0), SPt(0, 0)),
      QuadraticBezier(SPt(0, 0), SPt(2, 2), SPt(0, 0)) }

\* a parabola that turns back in x at t = 1/4 and in y at t = 3/4
ThreePieces == { QuadraticBezier(SPt(0, 0), SPt(-1, 3), SPt(2, 2)) }

SelfInputs == OnePiece \cup TwoPieces \cup ThreePieces

InitSelf ==
    /\ mode = "self"
    /\ edge1 \in SelfInputs /\ edge2 = edge1
    /\ depth \in Depths /\ epsilon \in Epsilons /\ maxIteration \in Budgets
    /\ queue = <<>> /\ res = <<>> /\ exactRes = <<>> /\ itr = 0
    /\ ret = "idle" /\ last = NoNote /\ out = NotYet
    /\ LLIdle /\ MergeIdle /\ SymIdle /\ SelfIdle /\ FnIdle

SelfOthers == <<mode, line1, line2, llret, mres, meps, mremoved, mout, symA, symB,
                fnArgs, fnRet>>

\* the arguments of the engine's call on the pair of pieces (i, j)
SelfCfg ==
    Args(self.splits[self.i].edge, self.splits[self.j].edge,
         depth, epsilon, maxIteration)

\* the edge is cut at its interior extreme points
EnterSelf ==
    /\ mode = "self" /\ ret = "idle"
    /\ \E sp \in {selfSplits(edge1)} :
           \E p \in {PairFrom(1, Len(sp))} :
               self' = [splits |-> sp, i |-> p.i, j |-> p.j, res |-> <<>>,
                        seeded |-> <<>>]
    /\ ret' = "pairs"
    /\ UNCHANGED <<queue, res, exactRes, itr, last, out>>
    /\ UNCHANGED Inputs /\ UNCHANGED SelfOthers

\* the engine starts on the next pair of pieces
StartPair ==
    /\ mode = "self" /\ ret = "pairs"
    /\ self.i <= Len(self.splits)
    /\ \E S \in {Begin(SelfCfg, selfSp1(self.i, self.j, self.splits[self.i]),
                       selfSp2(self.splits[self.j]))} :
           /\ Become(S)
           /\ self' = [self EXCEPT
                          !.seeded = @ \o SeededPP(self.splits[self.i],
                                                   self.splits[self.j], S.queue)]
    /\ UNCHANGED out
    /\ UNCHANGED Inputs /\ UNCHANGED SelfOthers

\* one turn of the engine's loop; a return of undefined is the return of
\* selfIntersections
ProcessSelf ==
    /\ mode = "self" /\ ret = "running"
    /\ queue # <<>>
    /\ \E S \in {Iterate(SelfCfg, Cur)} :
           /\ Become(S)
           /\ out' = IF S.ret = "Indeterminate" THEN Indeterminate ELSE out
    /\ UNCHANGED self
    /\ UNCHANGED Inputs /\ UNCHANGED SelfOthers

\* the engine returns res: it is mapped to the parameters of the edge and
\* the loops go on
PairDone ==
    /\ mode = "self" /\ ret = "running"
    /\ queue = <<>>
    /\ \E p \in {PairAfter(self.i, self.j, Len(self.splits))} :
           self' = [self EXCEPT
                       !.res = @ \o MapBack(self.splits[self.i],
                                            self.splits[self.j], res),
                       !.i = p.i, !.j = p.j]
    /\ ret' = "pairs"
    /\ UNCHANGED <<queue, res, exactRes, itr, last, out>>
    /\ UNCHANGED Inputs /\ UNCHANGED SelfOthers

\* the loops are over: res is deduplicated and mapped to points
ReturnSelf ==
    /\ mode = "self" /\ ret = "pairs"
    /\ self.i > Len(self.splits)
    /\ ret' = "list"
    /\ \E kept \in {mergeNeighboringPoints(self.res, epsilon)} :
           out' = List(MapPoints(edge1, edge1, kept))
    /\ UNCHANGED <<queue, res, exactRes, itr, last, self>>
    /\ UNCHANGED Inputs /\ UNCHANGED SelfOthers

NextSelf ==
    \/ EnterSelf
    \/ StartPair
    \/ ProcessSelf
    \/ PairDone
    \/ ReturnSelf

SpecSelf == InitSelf /\ [][NextSelf]_vars

-----------------------------------------------------------------------------
(* selfIntersections on an edge of one piece *)

\* extremePoints() holds no parameter strictly between 0 and 1
NoInteriorExtreme(e) ==
    \A ep \in {extremePoints(e)[k] : k \in 1..Len(extremePoints(e))} :
        ep.t = Zero \/ ep.t = One

\* C14: when extremePoints() of the edge holds no parameter strictly between
\* 0 and 1, selfIntersections never starts the engine (no task is ever
\* queued, no turn of its loop is taken), never returns Indeterminate, and
\* the list it returns is empty.
C14_OnePieceEmpty ==
    (mode = "self" /\ NoInteriorExtreme(edge1)) =>
        /\ ret \in {"idle", "pairs", "list"}
        /\ queue = <<>> /\ itr = 0 /\ last = NoNote
        /\ out \in {NotYet, List(<<>>)}
        /\ ret = "list" => out = List(<<>>)
        /\ ret # "idle" => Len(self.splits) = 1

\* a monotone cubic that is not along a segment has returned the empty list
C14_Witness ==
    /\ mode = "self" /\ ret = "list"
    /\ edge1 = CubicBezier(SPt(0, 0), SPt(1, 0), SPt(2, 1), SPt(3, 1))
    /\ NoInteriorExtreme(edge1)
    /\ out = List(<<>>)
    /\ self.splits = <<[edge |-> edge1, t |-> Zero, ratio |-> One]>>

-----------------------------------------------------------------------------
(* Specification SpecAll: intersectionsLL, intersections and                *)
(* selfIntersections, each on its inputs above                              *)

InitAll == InitLL \/ Init \/ InitSelf
NextAll == NextLL \/ Next \/ NextSelf
SpecAll == InitAll /\ [][NextAll]_vars

\* the parameters a side of a task stands for: its parameter alone when the
\* side is a point, the interval of half width 0.5 ** (i + 1) around it
\* when the side is an edge
HalfWidth(task, side) ==
    IF (side = 1 /\ task.type \in {"PP", "PE"}) \/ (side = 2 /\ task.type \in {"PP", "EP"})
    THEN Zero ELSE HalfPow(task.i + 1)
Low(task, side) == FSub(IF side = 1 THEN task.t1 ELSE task.t2, HalfWidth(task, side))
High(task, side) == FAdd(IF side = 1 THEN task.t1 ELSE task.t2, HalfWidth(task, side))

\* a result lies inside the intervals of a task
ResultInside(r, task) ==
    /\ FLe(Low(task, 1), r.t1) /\ FLe(r.t1, High(task, 1))
    /\ FLe(Low(task, 2), r.t2) /\ FLe(r.t2, High(task, 2))

\* the intervals of a task lie inside those of another
TaskInside(child, task) ==
    \A side \in {1, 2} :
        /\ FLe(Low(task, side), Low(child, side))
        /\ FLe(High(child, side), High(task, side))

UnitParams(items) ==
    \A k \in 1..Len(items) : InUnit(items[k].t1) /\ InUnit(items[k].t2)

\* every parameter returned or recorded so far is in [0, 1], and every
\* queued task stands for parameters in [0, 1]
AllInUnit ==
    /\ llret.kind = "list" => UnitParams(llret.items)
    /\ out.kind = "list" => UnitParams(out.items)
    /\ UnitParams(res) /\ UnitParams(exactRes)
    /\ UnitParams(self.res)
    /\ \A k \in 1..Len(queue) :
           \A side \in {1, 2} :
               FLe(Zero, Low(queue[k], side)) /\ FLe(High(queue[k], side), One)

\* a turn of the engine's loop: what the task records and what it enqueues
\* stays inside the intervals of the task
TurnInside ==
    (ret = "running" /\ queue # <<>>) =>
        /\ \A k \in (Len(res) + 1)..Len(res') : ResultInside(res'[k], Head(queue))
        /\ \A k \in Len(queue)..Len(queue') : TaskInside(queue'[k], Head(queue))

\* the return of the engine to selfIntersections: the results of a pair of
\* pieces are mapped into the parameter intervals of the two pieces
MappedInside ==
    (mode = "self" /\ ret = "running" /\ queue = <<>>) =>
        \A k \in (Len(self.res) + 1)..Len(self'.res) :
            LET s1 == self.splits[self.i]
                s2 == self.splits[self.j]
                r == self'.res[k]
            IN  /\ FLe(s1.t, r.t1) /\ FLe(r.t1, FAdd(s1.t, s1.ratio))
                /\ FLe(s2.t, r.t2) /\ FLe(r.t2, FAdd(s2.t, s2.ratio))

\* C11: every intersection returned by intersectionsLL, intersections or
\* selfIntersections has t1 and t2 in [0, 1]; and each turn of the engine's
\* loop records its results (at the task's own parameters, or at
\* t + (root - 0.5) * 0.5 ** i for the roots of paramsForPoint) and places
\* the tasks it enqueues (the PP tasks at t + (ep.t - 0.5) * 0.5 ** i
\* included) inside the parameter intervals of the task it processes.
C11_ParamsInside == []AllInUnit /\ [][TurnInside /\ MappedInside]_vars

\* a turn on an EP task of depth 0 has recorded an exact result that
\* paramsForPoint placed away from the centre of the task's interval
C11_Witness ==
    /\ mode = "intersections" /\ ret = "running"
    /\ last.type = "EP" /\ last.i = 0 /\ last.recovery /\ last.pushed = 1
    /\ res # <<>>
    /\ res[Len(res)].err = Zero
    /\ res[Len(res)].t1 # last.t1
    /\ ResultInside(res[Len(res)], [type |-> "EP", i |-> 0, t1 |-> last.t1, t2 |-> last.t2])

-----------------------------------------------------------------------------
(* Claims about the results the engine records, under Spec *)

\* two results are approximately equal in both parameters
SameSpot(r1, r2, eps) == approx(r1.t1, r2.t1, eps) /\ approx(r1.t2, r2.t2, eps)

\* the results with err = 0 of a list, in its order
RECURSIVE ExactOf(_)
ExactOf(rs) ==
    IF rs = <<>> THEN <<>>
    ELSE (IF Head(rs).err = Zero THEN <<Head(rs)>> ELSE <<>>) \o ExactOf(Tail(rs))

\* C21: at every point of a run of the engine, exactRes holds the results of
\* res with err = 0 in their order, no two of them are approximately equal
\* (closer than epsilon) in both t1 and t2, and no result of res, exact or
\* not, is approximately equal in both parameters to an exact result that
\* was recorded before it.
C21_NoRepeatedExact ==
    mode = "intersections" =>
        /\ exactRes = ExactOf(res)
        /\ \A j \in 1..Len(exactRes) : \A k \in 1..Len(exactRes) :
               j # k => ~SameSpot(exactRes[j], exactRes[k], epsilon)
        /\ \A j \in 1..Len(res) : \A k \in 1..Len(res) :
               (j < k /\ res[j].err = Zero) => ~SameSpot(res[j], res[k], epsilon)

\* C21 witness: a PP task whose two points are approximately equal has
\* recorded nothing, because an exact result recorded before it is
\* approximately equal to its parameters, with an exact result recorded
\* elsewhere in between.
C21_Witness ==
    /\ mode = "intersections" /\ ret = "running"
    /\ last.type = "PP" /\ approxPoints(last.pair[1], last.pair[2], X_EPSILON)
    /\ last.pushed = 0
    /\ Len(exactRes) >= 2
    /\ ~SameSpot(exactRes[Len(exactRes)], last, epsilon)
    /\ \E k \in 1..Len(exactRes) : SameSpot(exactRes[k], last, epsilon)

-----------------------------------------------------------------------------
(* Claims about the pairs of pieces of selfIntersections, under SpecSelf *)

\* the engine has just been started on a pair of pieces: its queue holds the
\* seed tasks and no turn of its loop has been taken
PairStarted == mode = "self" /\ ret = "running" /\ itr = 0 /\ last = NoNote

\* the special points the engine was started with, read from its seeds: one
\* PE task per special point of the first edge, one EP task per special
\* point of the second
SeedPoints1 ==
    LET pe == SelectSeq(queue, LAMBDA task : task.type = "PE")
    IN  [k \in 1..Len(pe) |-> [t |-> pe[k].t1, point |-> pe[k].pair[1]]]
SeedPoints2 ==
    LET ep == SelectSeq(queue, LAMBDA task : task.type = "EP")
    IN  [k \in 1..Len(ep) |-> [t |-> ep[k].t2, point |-> ep[k].pair[2]]]

\* the point of the edge at the global parameter where a piece starts, ends
PieceStart(s) == IntPt(pointAt(edge1, s.t))
PieceEnd(s) == IntPt(pointAt(edge1, FAdd(s.t, s.ratio)))

\* C22: for every pair of pieces (s_i, s_j), i < j, the engine is run on the
\* two pieces with the special points of s_i being {t = 0, start} only if
\* s_i is the first piece, then {t = 1, end} only if j # i + 1, and the
\* special points of s_j being {t = 1, end} alone, where start and end are
\* the points of the edge at the ends of the piece; the point at which two
\* adjacent pieces meet (t = 1 of s_i, t = 0 of s_j) is a special point of
\* neither.
C22_SelfSpecialPoints ==
    PairStarted =>
        LET s1 == self.splits[self.i]
            s2 == self.splits[self.j]
        IN  /\ 1 <= self.i /\ self.i < self.j /\ self.j <= Len(self.splits)
            /\ Head(queue).type # "PP" => Len(queue) = Len(SeedPoints1) + 2
            /\ queue[Len(queue)] = Task(0, "EE", <<s1.edge, s2.edge>>, Half, Half)
            /\ SeedPoints1 =
                   (IF self.i = 1 THEN <<[t |-> Zero, point |-> PieceStart(s1)]>>
                    ELSE <<>>)
                   \o (IF self.j # self.i + 1
                       THEN <<[t |-> One, point |-> PieceEnd(s1)]>> ELSE <<>>)
            /\ SeedPoints2 = <<[t |-> One, point |-> PieceEnd(s2)]>>
            /\ self.j = self.i + 1 =>
                   /\ \A k \in 1..Len(SeedPoints1) : SeedPoints1[k].t # One
                   /\ \A k \in 1..Len(SeedPoints2) : SeedPoints2[k].t # Zero
                   /\ \A k \in 1..Len(queue) :
                          ~(queue[k].t1 = One /\ queue[k].t2 = Zero)

\* C22 witness: the engine has been started on the second and the third
\* piece of an edge of three pieces, with no special point for the second
\* piece: its queue holds one EP task and the EE task.
C22_Witness ==
    /\ PairStarted
    /\ Len(self.splits) = 3 /\ self.i = 2 /\ self.j = 3
    /\ SeedPoints1 = <<>>
    /\ Len(queue) = 2 /\ queue[1].type = "EP" /\ queue[1].t2 = One
    /\ queue[1].pair[2] = end(edge1)

\* the piece boundaries B_0 < ... < B_n of the edge: the parameters of its
\* extreme points in ascending order
Boundaries ==
    CHOOSE bs \in
        { Ascending({Zero, One} \cup {ts[k] : k \in 1..Len(ts)}) :
            ts \in {extremeTs(edge1)} } : TRUE

\* the number of PP seeds so far that stand at the pair of parameters tt
SeededTimes(tt) == Cardinality({k \in 1..Len(self.seeded) : self.seeded[k] = tt})

\* the engine has been started on the pair of pieces (i, j)
RunStarted(i, j) ==
    \/ i < self.i
    \/ i = self.i /\ j < self.j
    \/ i = self.i /\ j = self.j /\ ret # "pairs"

-----------------------------------------------------------------------------
(* Specification SpecPieces: the (t, ratio) records of selfIntersections on  *)
(* doubles; and SpecRecords: selfIntersections as in SpecSelf, and these     *)
(* records                                                                  *)

\* the quadratics from (0, 0) whose extreme points are at tx = a / dx and
\* ty = b / dy, for the denominators up to MaxDen
PieceEdges ==
    { QuadraticBezier(Pt(0, 0), Pt(-f[1], -f[3]), Pt(f[2] - 2 * f[1], f[4] - 2 * f[3])) :
        f \in {g \in (1..MaxDen) \X (2..MaxDen) \X (1..MaxDen) \X (2..MaxDen) :
                  g[1] < g[2] /\ g[3] < g[4]} }

InitPieces ==
    /\ mode = "pieces"
    /\ fnArgs \in {<<e>> : e \in PieceEdges}
    /\ fnRet = NotYet
    /\ EdgesIdle

CallPieces ==
    /\ mode = "pieces" /\ fnRet = NotYet
    /\ fnRet' = Value(DblOp("PieceRecords", <<fnArgs[1]>>))
    /\ UNCHANGED <<mode, fnArgs>> /\ UNCHANGED EdgesVars

NextPieces == CallPieces

SpecPieces == InitPieces /\ [][NextPieces]_vars

InitRecords == InitSelf \/ InitPieces
NextRecords == NextSelf \/ NextPieces
SpecRecords == InitRecords /\ [][NextRecords]_vars

\* the records of the pieces in exact arithmetic: the first piece starts at
\* 0, each piece is not empty and ends where the next one starts, the last
\* one ends at 1, and the ratios sum to 1
RECURSIVE RatioSum(_)
RatioSum(ss) == IF ss = <<>> THEN Zero ELSE FAdd(Head(ss).ratio, RatioSum(Tail(ss)))

ExactPartition(ss) ==
    /\ ss[1].t = Zero
    /\ \A k \in 1..Len(ss) :
           /\ FLt(Zero, ss[k].ratio)
           /\ FAdd(ss[k].t, ss[k].ratio) = IF k < Len(ss) THEN ss[k + 1].t ELSE One
    /\ RatioSum(ss) = One

Ordered(rs) == \A k \in 1..Len(rs) : FLe(rs[k].t1, rs[k].t2)

\* selfIntersections in exact arithmetic: the partition, the order of the
\* two parameters of every result, and no result of a run on two adjacent
\* pieces at the end of the first and the start of the second
SelfOrdered ==
    (mode = "self" /\ ret # "idle") =>
        /\ ExactPartition(self.splits)
        /\ Ordered(self.res)
        /\ out.kind = "list" => Ordered(out.items)
        /\ (ret = "running" /\ self.j = self.i + 1) =>
               \A k \in 1..Len(res) : ~(res[k].t1 = One /\ res[k].t2 = Zero)

\* the return of the engine on the pieces (i, j): each of its results is
\* mapped to t1 = s_i.t + s_i.ratio * u1 inside piece i and to
\* t2 = s_j.t + s_j.ratio * u2 inside piece j
MappedToPieces ==
    (mode = "self" /\ ret = "running" /\ queue = <<>>) =>
        LET s1 == self.splits[self.i]
            s2 == self.splits[self.j]
        IN  /\ self.i < self.j
            /\ Len(self'.res) = Len(self.res) + Len(res)
            /\ \A k \in 1..Len(res) :
                   LET r == self'.res[Len(self.res) + k] IN
                   /\ r.t1 = FAdd(s1.t, FMul(s1.ratio, res[k].t1))
                   /\ r.t2 = FAdd(s2.t, FMul(s2.ratio, res[k].t2))
                   /\ FLe(s1.t, r.t1) /\ FLe(r.t1, FAdd(s1.t, s1.ratio))
                   /\ FLe(FAdd(s1.t, s1.ratio), s2.t)
                   /\ FLe(s2.t, r.t2) /\ FLe(r.t2, FAdd(s2.t, s2.ratio))

PiecesReturned == mode = "pieces" /\ fnRet # NotYet

\* the records on doubles: the first piece starts at 0, each piece is not
\* empty and starts before the next one, and every mapped result has
\* t1 <= t2
DblOrdered ==
    PiecesReturned =>
        LET ss == fnRet.items.splits IN
        /\ ss[1].t = DblZero
        /\ \A k \in 1..Len(ss) : DblLt(DblZero, ss[k].ratio)
        /\ \A k \in 1..(Len(ss) - 1) : DblLt(ss[k].t, ss[k + 1].t)
        /\ \A m \in fnRet.items.mapped : DblLe(m.t1, m.t2)

\* on doubles each piece ends exactly where the next one starts, the last
\* one at 1, and the ratios sum to exactly 1
DblExactPartition ==
    PiecesReturned =>
        LET ss == fnRet.items.splits IN
        /\ \A k \in 1..Len(ss) :
               fnRet.items.ends[k] = IF k < Len(ss) THEN ss[k + 1].t ELSE DblOne
        /\ fnRet.items.total = DblOne

\* the same up to rounding: within Number.EPSILON for the ends of the
\* pieces, within 8 * Number.EPSILON for the sum
DblNearPartition ==
    PiecesReturned =>
        LET ss == fnRet.items.splits IN
        /\ \A k \in 1..Len(ss) :
               DblApprox(fnRet.items.ends[k],
                         IF k < Len(ss) THEN ss[k + 1].t ELSE DblOne, DblEPSILON)
        /\ DblApprox(fnRet.items.total, DblOne, DblMul(0, DblInt(8), DblEPSILON))

\* C24 as stated: every result of selfIntersections has t1 <= t2; the
\* (t, ratio) records of the pieces partition [0, 1] in increasing order,
\* each piece starting where the previous one ends and the ratios summing
\* to 1; a result of the pair (i, j), i < j, is mapped to
\* t1 = s_i.t + s_i.ratio * u1 inside piece i and t2 = s_j.t + s_j.ratio * u2
\* inside piece j.
C24_OrderedExactPartition ==
    /\ [](SelfOrdered /\ DblOrdered /\ DblExactPartition)
    /\ [][MappedToPieces]_vars

\* C24, amended: the same, except that on doubles s.t + s.ratio equals the
\* start of the next piece (1 for the last piece) only up to rounding,
\* within Number.EPSILON, and the ratios sum to 1 only within
\* 8 * Number.EPSILON; the pieces start at the parameters of the extreme
\* points, in strictly increasing order, and the results stay ordered.
C24_OrderedNearPartition ==
    /\ [](SelfOrdered /\ DblOrdered /\ DblNearPartition)
    /\ [][MappedToPieces]_vars

\* C24 witness: the records of the quadratic (0, 0), (-1, -5), (1, -4),
\* whose extreme points are at 1 / 3 and 5 / 6: on doubles its second piece
\* does not end where the third one starts and the ratios do not sum to 1,
\* and the mapped results are ordered.
C24_Witness ==
    /\ PiecesReturned
    /\ fnArgs[1] = QuadraticBezier(Pt(0, 0), Pt(-1, -5), Pt(1, -4))
    /\ Len(fnRet.items.splits) = 3
    /\ fnRet.items.splits[2].t = Double(1, 3) /\ fnRet.items.splits[3].t = Double(5, 6)
    /\ fnRet.items.ends[2] # fnRet.items.splits[3].t
    /\ fnRet.items.total # DblOne
    /\ \A m \in fnRet.items.mapped : DblLe(m.t1, m.t2)
    /\ \E m \in fnRet.items.mapped : m.i = 2 /\ m.j = 3 /\ DblLt(m.t1, m.t2)

-----------------------------------------------------------------------------
(* Specification SpecChord: the chord test.  intersections on edges whose   *)
(* halves and quarters meet away from their ends, and the EE case of the    *)
(* switch on tasks of long, slightly bent edges                             *)

\* two diagonals that cross at t1 = t2 = 3/8, a diagonal that overlaps the
\* first from its quarter on, and a segment below the first whose box lies
\* in the box of the first
ChordSegments ==
    { <<GPt(0, 0), GPt(8, 8)>>, <<GPt(0, 6), GPt(8, -2)>>,
      <<GPt(2, 2), GPt(10, 10)>>, <<GPt(1, 0), GPt(5, 2)>> }

ChordInputs ==
    {Line(g[1], g[2]) : g \in ChordSegments}
    \cup {QuadraticBezier(g[1], MidPt(g[1], g[2]), g[2]) : g \in ChordSegments}

InitChord ==
    /\ mode = "intersections"
    /\ edge1 \in ChordInputs /\ edge2 \in ChordInputs
    /\ depth \in Depths /\ epsilon \in Epsilons /\ maxIteration \in Budgets
    /\ queue = <<>> /\ res = <<>> /\ exactRes = <<>> /\ itr = 0
    /\ ret = "idle" /\ last = NoNote /\ out = NotYet
    /\ LLIdle /\ MergeIdle /\ SymIdle /\ SelfIdle /\ FnIdle

\* Sub-edges whose deviation is not 0 and below 5e-5 * 2 ** i are 5000 / 2 ** i
\* times longer than they are high, and the engine's run down to them does
\* not fit the model's integers: the EE case is applied to tasks on them.
\* Three arcs over the x axis with deviations 5e-5, 5e-5 and 1e-4, an arc
\* with deviation 5e-5 under it, a straight edge and a slightly bent edge
\* across the axis, and a straight edge that ends on it.
NearEdges ==
    { QuadraticBezier(Pt(0, 0), Pt(10000, 2), Pt(20000, 0)),
      QuadraticBezier(Pt(0, 0), Pt(20000, 4), Pt(40000, 0)),
      QuadraticBezier(Pt(0, 0), Pt(5000, 2), Pt(10000, 0)),
      QuadraticBezier(Pt(4000, 0), Pt(14000, -2), Pt(24000, 0)),
      QuadraticBezier(Pt(8000, -8000), Pt(10000, 0), Pt(12000, 8000)),
      QuadraticBezier(Pt(8000, -8000), Pt(10000, 4), Pt(12000, 8000)),
      QuadraticBezier(Pt(6000, 4), Pt(10000, 2), Pt(14000, 0)) }

\* the tasks: of depth 0..MaxDepth, on the first subinterval of that depth,
\* in a call whose depth is that of the task or one more
NearTasks ==
    {Task(i, "EE", <<e1, e2>>, HalfPow(i + 1), HalfPow(i + 1)) :
        i \in 0..MaxDepth, e1 \in NearEdges, e2 \in NearEdges}

InitNear ==
    /\ mode = "caseEE"
    /\ \E task \in NearTasks, d \in 0..1, mi \in {-1, 0} :
           fnArgs = <<Args(task.pair[1], task.pair[2], task.i + d, DefaultEpsilon, mi),
                      0, task>>
    /\ fnRet = NotYet
    /\ EdgesIdle

CallCaseEE ==
    /\ mode = "caseEE" /\ fnRet = NotYet
    /\ fnRet' = List(<<caseEE(fnArgs[1], fnArgs[2], fnArgs[3])>>)
    /\ UNCHANGED <<mode, fnArgs>> /\ UNCHANGED EdgesVars

NextChord ==
    \/ EnterLL
    \/ EnterEngine
    \/ ProcessPP
    \/ ProcessPE
    \/ ProcessEP
    \/ ProcessEE
    \/ Return
    \/ CallCaseEE

SpecChord == (InitChord \/ InitNear) /\ [][NextChord]_vars

-----------------------------------------------------------------------------
(* Claims about the queue of the engine, under Spec and SpecChord *)

\* the tasks of a list of lists, one list after the other
RECURSIVE Flatten(_)
Flatten(ls) == IF ls = <<>> THEN <<>> ELSE Head(ls) \o Flatten(Tail(ls))

\* The seed tasks of intersections in the order of the claim: for each
\* special point of edge1 in turn, a PP task with each special point of
\* edge2 in turn; a PE task per special point of edge1 at t2 = 0.5; an EP
\* task per special point of edge2 at t1 = 0.5; the EE task at (0.5, 0.5).
SeedOrder ==
    LET sp1 == extremePoints(edge1)
        sp2 == extremePoints(edge2)
    IN  Flatten([a \in 1..Len(sp1) |->
                    [b \in 1..Len(sp2) |->
                        Task(0, "PP", <<sp1[a].point, sp2[b].point>>, sp1[a].t, sp2[b].t)]])
        \o [a \in 1..Len(sp1) |-> Task(0, "PE", <<sp1[a].point, edge2>>, sp1[a].t, Half)]
        \o [b \in 1..Len(sp2) |-> Task(0, "EP", <<edge1, sp2[b].point>>, Half, sp2[b].t)]
        \o <<Task(0, "EE", <<edge1, edge2>>, Half, Half)>>

\* the seeds that have not been processed after itr turns of the loop
SeedsLeft == SubSeq(SeedOrder, itr + 1, Len(SeedOrder))

\* the task a turn of the loop has processed, as the note of the turn
\* records it
Processed(note) == Task(note.i, note.type, note.pair, note.t1, note.t2)

\* C25: the engine starts with the seed tasks queued in the order PP (one
\* per pair of special points, edge1's in the outer loop), PE, EP, EE, all
\* of depth 0; as long as seeds are left they are at the head of the queue
\* in that order, before every task enqueued by a turn of the loop; and
\* every turn of the loop processes the task at the head of the queue and
\* puts the tasks it enqueues at the end, so tasks are processed in the
\* order in which they were enqueued.
C25_SeedsThenFifo ==
    /\ [](EngineRunning =>
              /\ itr = 0 => queue = SeedOrder
              /\ itr < Len(SeedOrder) =>
                     /\ Len(queue) >= Len(SeedsLeft)
                     /\ SubSeq(queue, 1, Len(SeedsLeft)) = SeedsLeft
                     /\ \A k \in (Len(SeedsLeft) + 1)..Len(queue) :
                            queue[k].type = "PP" \/ queue[k].i > 0)
    /\ [][(EngineRunning /\ queue # <<>>) =>
              /\ Processed(last') = Head(queue)
              /\ last'.n = itr
              /\ Len(queue') >= Len(queue) - 1
              /\ SubSeq(queue', 1, Len(queue) - 1) = Tail(queue)
              /\ SubSeq(queue', Len(queue), Len(queue')) = last'.enq]_vars

\* C25 witness: the ninth turn of the loop has processed the EE seed, after
\* the four PP, two PE and two EP seeds, and the task at the head of the
\* queue is one that the first PE seed enqueued.
C25_Witness ==
    /\ EngineRunning
    /\ Len(SeedOrder) = 9 /\ itr = 9
    /\ Processed(last) = Task(0, "EE", <<edge1, edge2>>, Half, Half)
    /\ Len(last.enq) = 9
    /\ queue # <<>>
    /\ Head(queue).pair[1] = start(edge1) /\ Head(queue).t1 = Zero
    /\ Head(queue).type \in {"PP", "PE"}

\* the chord test of an EE task: whether both deviations are below
\* maxdl(i), the interior intersections of the two chords, and whether both
\* deviations are exactly 0
Near(task) ==
    /\ DevBelow(deviationFromLine(task.pair[1]), maxdl(task.i))
    /\ DevBelow(deviationFromLine(task.pair[2]), maxdl(task.i))
Chords(task) ==
    intersectionsLLBulk(Line(start(task.pair[1]), end(task.pair[1])),
                        Line(start(task.pair[2]), end(task.pair[2])))
BothStraight(task) ==
    /\ deviationFromLine(task.pair[1]) = Num(Zero)
    /\ deviationFromLine(task.pair[2]) = Num(Zero)

\* the chord test lets the task go on to the split
ChordPass(task) ==
    Near(task) =>
        \/ Chords(task) # Indeterminate /\ Chords(task).items # <<>>
        \/ Chords(task) = Indeterminate /\ ~BothStraight(task)

\* the engine is about to process an EE task that passes the box test, the
\* depth and budget test, and the chord test
AboutToSplit ==
    /\ EngineRunning /\ queue # <<>>
    /\ Head(queue).type = "EE"
    /\ BoxTest(Head(queue))
    /\ ~(Head(queue).i >= depth \/ (maxIteration >= 0 /\ itr >= maxIteration))
    /\ ChordPass(Head(queue))

\* the two halves of an edge and its middle point, by splitAt(0.5) and
\* pointAt(0.5)
FirstHalf(e) == splitAt(e, Half)[1]
SecondHalf(e) == splitAt(e, Half)[2]
Middle(e) == IntPt(pointAt(e, Half))

\* the nine descendants of an EE task of depth i, the PP task being given
\* the depth ppDepth: with d = 2^-(i + 2), a PP task of the two middle
\* points at (t1, t2), PE tasks of the middle point of the first edge and
\* the halves of the second at (t1, t2 - d) and (t1, t2 + d), EP tasks of
\* the halves of the first edge and the middle point of the second at
\* (t1 - d, t2) and (t1 + d, t2), and EE tasks of the four pairs of halves
\* at (t1 -/+ d, t2 -/+ d)
NineDescendants(task, ppDepth) ==
    LET i == task.i
        d == HalfPow(i + 2)
        e1 == task.pair[1]
        e2 == task.pair[2]
        lo1 == FSub(task.t1, d)
        hi1 == FAdd(task.t1, d)
        lo2 == FSub(task.t2, d)
        hi2 == FAdd(task.t2, d)
    IN  << Task(ppDepth, "PP", <<Middle(e1), Middle(e2)>>, task.t1, task.t2),
           Task(i + 1, "PE", <<Middle(e1), FirstHalf(e2)>>, task.t1, lo2),
           Task(i + 1, "PE", <<Middle(e1), SecondHalf(e2)>>, task.t1, hi2),
           Task(i + 1, "EP", <<FirstHalf(e1), Middle(e2)>>, lo1, task.t2),
           Task(i + 1, "EP", <<SecondHalf(e1), Middle(e2)>>, hi1, task.t2),
           Task(i + 1, "EE", <<FirstHalf(e1), FirstHalf(e2)>>, lo1, lo2),
           Task(i + 1, "EE", <<FirstHalf(e1), SecondHalf(e2)>>, lo1, hi2),
           Task(i + 1, "EE", <<SecondHalf(e1), FirstHalf(e2)>>, hi1, lo2),
           Task(i + 1, "EE", <<SecondHalf(e1), SecondHalf(e2)>>, hi1, hi2) >>

\* C26 as stated: an EE task of depth i that passes the box, depth, budget
\* and chord tests enqueues exactly the nine descendants, each of depth
\* i + 1, and records nothing.
C26_NineOfNextDepth ==
    [][AboutToSplit =>
          /\ Enqueued = NineDescendants(Head(queue), Head(queue).i + 1)
          /\ res' = res /\ ret' = "running"]_vars

\* C26, amended: it enqueues exactly the nine descendants, the two PE, two
\* EP and four EE tasks of depth i + 1 and the PP task of depth i, the
\* depth of its parent (the depth of a PP task is never read), and records
\* nothing.
C26_NineWithPPOfSameDepth ==
    [][AboutToSplit =>
          /\ Enqueued = NineDescendants(Head(queue), Head(queue).i)
          /\ res' = res /\ ret' = "running"]_vars

\* C26 witness: an EE task of depth 1 on halves of the two edges, whose
\* chords cross, has passed the chord test and enqueued its nine
\* descendants: a PP task of depth 1 at the two middle points and eight
\* tasks of depth 2 on the quarters, the last an eighth beyond the centre on
\* both edges.
C26_Witness ==
    /\ EngineRunning
    /\ last.type = "EE" /\ last.i = 1 /\ last.chord /\ ~last.exhausted
    /\ Len(last.enq) = 9
    /\ Len(queue) >= 9
    /\ SubSeq(queue, Len(queue) - 8, Len(queue)) = last.enq
    /\ last.enq[1].type = "PP" /\ last.enq[1].i = 1
    /\ \A k \in 2..9 : last.enq[k].i = 2
    /\ last.enq[9].type = "EE"
    /\ last.enq[9].t1 = FAdd(last.t1, <<1, 8>>) /\ last.enq[9].t2 = FAdd(last.t2, <<1, 8>>)
    /\ end(last.enq[9].pair[1]) = end(last.pair[1])
    /\ start(last.enq[9].pair[1]) = pointAtHalf(last.pair[1])

\* an EE task one of whose edges has a single point for its bounding box is
\* at the head of the queue
PointEE ==
    /\ EngineRunning /\ queue # <<>>
    /\ Head(queue).type = "EE"
    /\ \/ isPoint(boundingBox(Head(queue).pair[1]))
       \/ isPoint(boundingBox(Head(queue).pair[2]))

\* the PE task and the EP task an EE task is reduced to
ReducedPE(task) ==
    Task(task.i, "PE", <<topLeft(boundingBox(task.pair[1])), task.pair[2]>>,
         task.t1, task.t2)
ReducedEP(task) ==
    Task(task.i, "EP", <<task.pair[1], topLeft(boundingBox(task.pair[2]))>>,
         task.t1, task.t2)

\* C27: an EE task in which the bounding box of either edge is a single
\* point is always reduced: the turn that processes it enqueues the PE task
\* of the point of edge1 against edge2, or the EP task of edge1 against the
\* point of edge2, at the same centre and depth.
C27_PointBoxReduced ==
    [][PointEE =>
          \/ /\ isPoint(boundingBox(Head(queue).pair[1]))
             /\ Enqueued = <<ReducedPE(Head(queue))>>
          \/ /\ isPoint(boundingBox(Head(queue).pair[2]))
             /\ Enqueued = <<ReducedEP(Head(queue))>>]_vars

-----------------------------------------------------------------------------
(* Claims about the chord test of the EE case, under SpecChord *)

\* an EE task that passes the box test is about to be processed with depth
\* and budget left: at the head of the engine's queue, or as the argument
\* of the EE case applied on its own
EngineEE ==
    /\ EngineRunning /\ queue # <<>>
    /\ Head(queue).type = "EE"
    /\ BoxTest(Head(queue))
    /\ ~(Head(queue).i >= depth \/ (maxIteration >= 0 /\ itr >= maxIteration))
CaseEE ==
    /\ mode = "caseEE" /\ fnRet = NotYet
    /\ BoxTest(fnArgs[3])
    /\ ~(\/ fnArgs[3].i >= fnArgs[1].depth
         \/ (fnArgs[1].maxIteration >= 0 /\ fnArgs[2] >= fnArgs[1].maxIteration))

\* what the step does with the task: it splits (the nine descendants are
\* enqueued, nothing is recorded, the loop goes on), it discards the task
\* (nothing is enqueued or recorded, the loop goes on), or the call returns
\* undefined
EngineSplits ==
    /\ Enqueued = NineDescendants(Head(queue), Head(queue).i)
    /\ res' = res /\ ret' = "running"
EngineDiscards == queue' = Tail(queue) /\ res' = res /\ ret' = "running"
EngineReturnsUndefined == ret' = "Indeterminate" /\ out' = Indeterminate
CaseSplits ==
    /\ fnRet'.items[1].enq = NineDescendants(fnArgs[3], fnArgs[3].i)
    /\ fnRet'.items[1].push = <<>> /\ ~fnRet'.items[1].undef
CaseDiscards ==
    /\ fnRet'.items[1].enq = <<>>
    /\ fnRet'.items[1].push = <<>> /\ ~fnRet'.items[1].undef
CaseReturnsUndefined == fnRet'.items[1].undef

\* C28: the chord test never ends an EE task of depth 0: with boxes that are
\* not points and overlap openly, depth > 0 and budget left, the task
\* splits both edges and enqueues its nine descendants, whatever the two
\* deviations are and however the chords lie.
C28_NoChordExitAtDepthZero ==
    [][/\ EngineEE /\ Head(queue).i = 0 => EngineSplits
       /\ CaseEE /\ fnArgs[3].i = 0 => CaseSplits]_vars

\* C28 witness: the EE task of depth 0 on a Line and a straight quadratic,
\* both of deviation 0, whose chords do not cross, has split into its nine
\* descendants; from depth 1 on the chord test discards such a task.
C28_Witness ==
    /\ EngineRunning
    /\ last.type = "EE" /\ last.i = 0 /\ Len(last.enq) = 9
    /\ last.pair[1].deg = 1 /\ last.pair[2].deg = 2
    /\ BothStraight(Processed(last))
    /\ Chords(Processed(last)) = List(<<>>)
    /\ SubSeq(queue, Len(queue) - 8, Len(queue)) = NineDescendants(Processed(last), 0)

\* C29: an EE task of depth i >= 1 whose two deviations are below maxdl(i)
\* makes the call return undefined only if its chords are Indeterminate and
\* both deviations are exactly 0, is discarded only if its chords have no
\* interior intersection, and in every other case (the chords cross, or
\* they are Indeterminate and a deviation is not 0) splits.
ChordOutcome(task, undefined, discarded, splits) ==
    task.i >= 1 /\ Near(task) =>
        /\ undefined => Chords(task) = Indeterminate /\ BothStraight(task)
        /\ discarded => Chords(task) = List(<<>>)
        /\ \/ Chords(task) = Indeterminate /\ BothStraight(task)
           \/ Chords(task) = List(<<>>)
           \/ splits

C29_ChordHeuristic ==
    [][/\ EngineEE =>
            ChordOutcome(Head(queue), EngineReturnsUndefined, EngineDiscards,
                         EngineSplits)
       /\ CaseEE =>
            ChordOutcome(fnArgs[3], CaseReturnsUndefined, CaseDiscards,
                         CaseSplits)]_vars

\* C29 witness: the EE case has split a task of depth >= 1 on two arcs over
\* the same line whose deviations are below maxdl(i) and not 0: the chords
\* are Indeterminate.
C29_Witness ==
    /\ mode = "caseEE" /\ fnRet # NotYet
    /\ fnArgs[3].i >= 1 /\ Near(fnArgs[3])
    /\ Chords(fnArgs[3]) = Indeterminate
    /\ ~BothStraight(fnArgs[3])
    /\ deviationFromLine(fnArgs[3].pair[1]).kind = "num"
    /\ FLt(Zero, deviationFromLine(fnArgs[3].pair[1]).v)
    /\ fnRet.items[1].enq = NineDescendants(fnArgs[3], fnArgs[3].i)

-----------------------------------------------------------------------------
(* Claims about the centres and sub-edges of the tasks, under SpecChord *)

\* t is an odd multiple of 2^-(i+1) strictly between 0 and 1 (a fraction is
\* kept in lowest terms)
OddCentre(t, i) ==
    /\ t[2] = 2 ^ (i + 1)
    /\ t[1] % 2 = 1
    /\ 0 < t[1] /\ t[1] < t[2]

\* s is the part of e over [a, b]: an edge of the same class with
\* s(u) = e(a + (b - a) u); for polynomials of degree up to 2 it is enough
\* that the two agree at three values of u
IsPart(s, e, a, b) ==
    /\ s.deg = e.deg
    /\ \A u \in {Zero, Half, One} :
           pointAt(s, u) = pointAt(e, FAdd(a, FMul(FSub(b, a), u)))

\* the sub-edge s of a task of depth i, with centre t, is the part of the
\* original edge e over [t - 2^-(i+1), t + 2^-(i+1)]
Centred(s, e, t, i) ==
    /\ OddCentre(t, i)
    /\ IsPart(s, e, FSub(t, HalfPow(i + 1)), FAdd(t, HalfPow(i + 1)))

TaskCentred(task) ==
    CASE task.type = "PE" -> Centred(task.pair[2], edge2, task.t2, task.i)
      [] task.type = "EP" -> Centred(task.pair[1], edge1, task.t1, task.i)
      [] task.type = "EE" -> /\ Centred(task.pair[1], edge1, task.t1, task.i)
                             /\ Centred(task.pair[2], edge2, task.t2, task.i)
      [] OTHER -> TRUE

\* the tasks of depth i + 1 that the turn on a task of depth i enqueues are
\* placed at t -/+ 2^-(i+2) on every parameter that ranges over a sub-edge,
\* with the first half of the parent's sub-edge at t - 2^-(i+2) and the
\* second half at t + 2^-(i+2); a parameter of a point keeps its value
ChildPlaced(s, t, ps, pt, i) ==
    \/ t = FSub(pt, HalfPow(i + 2)) /\ IsPart(s, ps, Zero, Half)
    \/ t = FAdd(pt, HalfPow(i + 2)) /\ IsPart(s, ps, Half, One)

ChildOf(child, parent) ==
    CASE child.type = "PE" ->
             /\ child.t1 = parent.t1
             /\ ChildPlaced(child.pair[2], child.t2, parent.pair[2], parent.t2, parent.i)
      [] child.type = "EP" ->
             /\ child.t2 = parent.t2
             /\ ChildPlaced(child.pair[1], child.t1, parent.pair[1], parent.t1, parent.i)
      [] child.type = "EE" ->
             /\ ChildPlaced(child.pair[1], child.t1, parent.pair[1], parent.t1, parent.i)
             /\ ChildPlaced(child.pair[2], child.t2, parent.pair[2], parent.t2, parent.i)
      [] OTHER -> FALSE

QueueCentred == \A k \in 1..Len(queue) : TaskCentred(queue[k])

\* C30: every PE, EP and EE task of depth i in the queue has, on each
\* parameter that ranges over a sub-edge, a centre that is an odd multiple
\* of 2^-(i+1) strictly between 0 and 1, and its sub-edge is the part of
\* the original edge over [t - 2^-(i+1), t + 2^-(i+1)]: so it is for the
\* seeds, for every task a turn of the loop enqueues and for the task it
\* takes from the head of the queue; the children a turn enqueues are
\* placed at t -/+ 2^-(i+2) with the matching half.
C30_CentresAndSubEdges ==
    [][EngineRunning /\ queue # <<>> =>
          /\ itr = 0 => QueueCentred
          /\ TaskCentred(Head(queue))
          /\ \A k \in 1..Len(Enqueued) :
                 /\ TaskCentred(Enqueued[k])
                 /\ Enqueued[k].i = Head(queue).i + 1 =>
                        ChildOf(Enqueued[k], Head(queue))]_vars

\* C30 witness: the queue holds an EE task of depth 2 centred at (3/8, 1/8)
\* on the second quarter of edge1 and the first quarter of edge2, two bent or
\* straight quadratics.
C30_Witness ==
    /\ EngineRunning
    /\ edge1.deg = 2 /\ edge2.deg = 2
    /\ \E k \in 1..Len(queue) :
           /\ queue[k].type = "EE" /\ queue[k].i = 2
           /\ queue[k].t1 = <<3, 8>> /\ queue[k].t2 = <<1, 8>>
           /\ IsPart(queue[k].pair[1], edge1, <<1, 4>>, <<1, 2>>)
           /\ IsPart(queue[k].pair[2], edge2, Zero, <<1, 4>>)
           /\ queue[k].pair[1] # edge1

====
